---- MODULE Spec2Model ----
(***************************************************************************)
(* FileVault: password-based file encryption (AES-256-GCM + PBKDF2) with a *)
(* self-describing container.  The model covers the container header      *)
(* codec, the encryption and decryption pipelines and the verification     *)
(* engine, over a small file system whose files are byte sequences.        *)
(*                                                                         *)
(* Library primitives (crypto/rand, PBKDF2, AES-GCM, SHA-256) are          *)
(* modelled by byte-valued stand-ins that keep what the pipelines rely     *)
(* on: the random source never repeats a draw, the keystream and the tag   *)
(* depend on every byte of key, nonce and ciphertext, and the checksum     *)
(* depends on every hashed byte.                                           *)
(***************************************************************************)
EXTENDS Integers, Sequences, FiniteSets, TLC

(***************************************************************************)
(* Bounds of the model.                                                    *)
(***************************************************************************)
\* longest plaintext of the initial input file
MaxLen == 1
\* number of EncryptFile calls that reach the random source
MaxEnc == 2
\* number of I/O failures injected in one behaviour
MaxFaults == 1
\* longest list of paths handed to BatchVerify
MaxBatch == 2

\* command-line runs in one behaviour
MaxRuns == 2
\* explicit SecureBuffer.Destroy calls in one behaviour
MaxDestroy == 2
\* Write, WriteChunk and WriteBatch calls on one StreamWriter
MaxCalls == 2

(***************************************************************************)
(* Program constants.                                                      *)
(***************************************************************************)
MagicSize == 4
VersionSize == 4
AlgorithmSize == 4
SaltSize == 32
IVSize == 16
OriginalSizeSize == 8
FileNameLengthSize == 4
ReservedSize == 32
ChecksumSize == 16
AuthTagSize == 16
FormatVersion == 1
AlgorithmAES256GCM == 1
MaxFileNameLength == 4096
KeySize == 32
NonceSize == 12
TagSize == 16
DefaultIterations == 100000

BaseHeaderSize ==
    MagicSize + VersionSize + AlgorithmSize + SaltSize + IVSize
    + OriginalSizeSize + FileNameLengthSize + ReservedSize + ChecksumSize

\* "FVLT"
MagicBytes == <<70, 86, 76, 84>>

(***************************************************************************)
(* Bytes and byte strings.                                                 *)
(***************************************************************************)
Byte == 0..255

Min(a, b) == IF a < b THEN a ELSE b

Zeros(n) == [i \in 1..n |-> 0]

Take(s, n) == SubSeq(s, 1, Min(n, Len(s)))

Drop(s, n) == SubSeq(s, n + 1, Len(s))

IsZeroed(s) == \A i \in 1..Len(s) : s[i] = 0

\* 2^k for k in 0..7
Pow2(k) == CASE k = 0 -> 1 [] k = 1 -> 2 [] k = 2 -> 4 [] k = 3 -> 8
             [] k = 4 -> 16 [] k = 5 -> 32 [] k = 6 -> 64 [] OTHER -> 128

\* byte b with bit k inverted
FlipBit(b, k) ==
    IF (b \div Pow2(k)) % 2 = 0 THEN b + Pow2(k) ELSE b - Pow2(k)

\* byte string s with bit k of the byte at position pos (1-based) inverted
FlipAt(s, pos, k) == [s EXCEPT ![pos] = FlipBit(s[pos], k)]

\* binary.LittleEndian encoding of the unsigned integer n on w bytes
RECURSIVE LittleEndian(_, _)
LittleEndian(n, w) ==
    IF w = 0 THEN <<>> ELSE <<n % 256>> \o LittleEndian(n \div 256, w - 1)

\* value of a little-endian uint32; every value of 2^16 or more is reported
\* as 65536: the code only compares the value with 0 and 4096 and uses it as
\* a read length, and no modelled file is that long
Uint32(b) ==
    IF b[3] = 0 /\ b[4] = 0 THEN b[1] + 256 * b[2] ELSE 65536

(***************************************************************************)
(* Header codec (package fileops).  Unsigned integer fields are kept in    *)
(* their little-endian byte form, so that they keep their width.           *)
(***************************************************************************)
\* the byte of s at position j, 0 past its end
ByteAt(s, j) == IF j > Len(s) THEN 0 ELSE s[j]

\* sum of the bytes of s at positions j, j+16, j+32, ..., taken sixteen
\* positions at a time
RECURSIVE StrideSum(_, _)
StrideSum(s, j) ==
    IF j > Len(s) THEN 0
    ELSE ByteAt(s, j) + ByteAt(s, j + ChecksumSize)
         + ByteAt(s, j + 2 * ChecksumSize) + ByteAt(s, j + 3 * ChecksumSize)
         + ByteAt(s, j + 4 * ChecksumSize) + ByteAt(s, j + 5 * ChecksumSize)
         + ByteAt(s, j + 6 * ChecksumSize) + ByteAt(s, j + 7 * ChecksumSize)
         + ByteAt(s, j + 8 * ChecksumSize) + ByteAt(s, j + 9 * ChecksumSize)
         + ByteAt(s, j + 10 * ChecksumSize) + ByteAt(s, j + 11 * ChecksumSize)
         + ByteAt(s, j + 12 * ChecksumSize) + ByteAt(s, j + 13 * ChecksumSize)
         + ByteAt(s, j + 14 * ChecksumSize) + ByteAt(s, j + 15 * ChecksumSize)
         + StrideSum(s, j + 16 * ChecksumSize)

\* stand-in for hash[:16] of SHA-256: 16 bytes, each depending on the length
\* of the input and on every 16th input byte, so that changing one input
\* byte changes the result
Sha256Trunc16(data) ==
    [i \in 1..ChecksumSize |-> (Len(data) + StrideSum(data, i)) % 256]

\* the zero value of the FileHeader struct
ZeroHeader ==
    [Magic |-> Zeros(MagicSize), Version |-> Zeros(VersionSize),
     Algorithm |-> Zeros(AlgorithmSize), Salt |-> Zeros(SaltSize),
     IV |-> Zeros(IVSize), OriginalSize |-> Zeros(OriginalSizeSize),
     FileNameLength |-> Zeros(FileNameLengthSize), FileName |-> <<>>,
     Reserved |-> Zeros(ReservedSize), Checksum |-> Zeros(ChecksumSize)]

\* the bytes the checksum is computed over: every field before the checksum,
\* in serialized order
ChecksumInput(h) ==
    h.Magic \o h.Version \o h.Algorithm \o h.Salt \o h.IV \o h.OriginalSize
    \o h.FileNameLength \o h.FileName \o h.Reserved

calculateChecksum(h) == [h EXCEPT !.Checksum = Sha256Trunc16(ChecksumInput(h))]

\* a variant that leaves OriginalSize at its zero value
NewFileHeaderUnsized(originalSize, fileName, salt, iv) ==
    calculateChecksum(
        [ZeroHeader EXCEPT
            !.Magic = MagicBytes,
            !.Version = LittleEndian(FormatVersion, VersionSize),
            !.Algorithm = LittleEndian(AlgorithmAES256GCM, AlgorithmSize),
            !.Salt = salt,
            !.IV = iv,
            !.FileNameLength = LittleEndian(Len(fileName), FileNameLengthSize),
            !.FileName = fileName])

NewFileHeader(originalSize, fileName, salt, iv) ==
    calculateChecksum(
        [ZeroHeader EXCEPT
            !.Magic = MagicBytes,
            !.Version = LittleEndian(FormatVersion, VersionSize),
            !.Algorithm = LittleEndian(AlgorithmAES256GCM, AlgorithmSize),
            !.Salt = salt,
            !.IV = iv,
            !.OriginalSize = LittleEndian(originalSize, OriginalSizeSize),
            !.FileNameLength = LittleEndian(Len(fileName), FileNameLengthSize),
            !.FileName = fileName])

\* FileHeader.IsValid: "" when valid, else the first violated check
IsValid(h) ==
    IF h.Magic # MagicBytes THEN "invalid magic number"
    ELSE IF h.Version # LittleEndian(FormatVersion, VersionSize)
         THEN "unsupported version"
    ELSE ""

GetTotalSize(h) == BaseHeaderSize + Len(h.FileName)

\* a variant that never writes the name
HeaderWritesUnnamed(h) ==
    <<h.Magic, h.Version, h.Algorithm, h.Salt, h.IV, h.OriginalSize,
      h.FileNameLength, h.Reserved, h.Checksum>>

\* the successive writes WriteTo makes on the stream; the name is written
\* only when FileNameLength > 0
HeaderWrites(h) ==
    <<h.Magic, h.Version, h.Algorithm, h.Salt, h.IV, h.OriginalSize,
      h.FileNameLength>>
    \o (IF Uint32(h.FileNameLength) > 0 THEN <<h.FileName>> ELSE <<>>)
    \o <<h.Reserved, h.Checksum>>

RECURSIVE Concat(_)
Concat(ss) == IF ss = <<>> THEN <<>> ELSE ss[1] \o Concat(Tail(ss))

\* a variant that returns before it writes the checksum
WriteToWithoutChecksum(h, failAt) ==
    LET ws == SubSeq(HeaderWrites(h), 1, Len(HeaderWrites(h)) - 1)
        done == Min(failAt, Len(ws))
        out == Concat(SubSeq(ws, 1, done))
    IN [bytes |-> out, n |-> Len(out), err |-> failAt < Len(ws)]

\* FileHeader.WriteTo on a stream whose write number failAt + 1 fails
\* (failAt >= number of writes: no failure): the bytes put on the stream,
\* the byte count reported and whether an error is returned
WriteTo(h, failAt) ==
    LET ws == HeaderWrites(h)
        done == Min(failAt, Len(ws))
        out == Concat(SubSeq(ws, 1, done))
    IN [bytes |-> out, n |-> Len(out), err |-> failAt < Len(ws)]

\* the slice data[off+1 .. off+size], or the zero value when the stream
\* ends before it
Field(data, off, size) ==
    IF Len(data) >= off + size THEN SubSeq(data, off + 1, off + size)
    ELSE Zeros(size)

NameOffset ==
    MagicSize + VersionSize + AlgorithmSize + SaltSize + IVSize
    + OriginalSizeSize + FileNameLengthSize

\* a variant that accepts every name length
FileNameNeverTooLarge(n) == FALSE

\* the bound ReadFrom puts on the name length before it allocates the name
FileNameTooLarge(n) == n > MaxFileNameLength

\* FileHeader.ReadFrom on a stream holding data: the header read, the byte
\* count reported, and the error ("" for nil)
ReadFrom(data) ==
    LET o1 == MagicSize
        o2 == o1 + VersionSize
        o3 == o2 + AlgorithmSize
        o4 == o3 + SaltSize
        o5 == o4 + IVSize
        o6 == o5 + OriginalSizeSize
        o7 == NameOffset
        fnl == Field(data, o6, FileNameLengthSize)
        n == Uint32(fnl)
        fixedRead ==
            IF Len(data) >= o7 THEN o7
            ELSE IF Len(data) >= o6 THEN o6
            ELSE IF Len(data) >= o5 THEN o5
            ELSE IF Len(data) >= o4 THEN o4
            ELSE IF Len(data) >= o3 THEN o3
            ELSE IF Len(data) >= o2 THEN o2
            ELSE IF Len(data) >= o1 THEN o1
            ELSE 0
        fixed ==
            [ZeroHeader EXCEPT
                !.Magic = Field(data, 0, MagicSize),
                !.Version = Field(data, o1, VersionSize),
                !.Algorithm = Field(data, o2, AlgorithmSize),
                !.Salt = Field(data, o3, SaltSize),
                !.IV = Field(data, o4, IVSize),
                !.OriginalSize = Field(data, o5, OriginalSizeSize),
                !.FileNameLength = fnl]
    IN  IF Len(data) < o7
        THEN [h |-> fixed, n |-> fixedRead, err |-> "unexpected end of header"]
        ELSE IF FileNameTooLarge(n)
        THEN [h |-> fixed, n |-> o7, err |-> "filename length too large"]
        ELSE IF Len(data) < o7 + n
        THEN [h |-> fixed, n |-> o7, err |-> "unexpected end of header"]
        ELSE LET named == [fixed EXCEPT !.FileName = SubSeq(data, o7 + 1, o7 + n)]
                 o8 == o7 + n
                 o9 == o8 + ReservedSize
                 o10 == o9 + ChecksumSize
             IN  IF Len(data) < o9
                 THEN [h |-> named, n |-> o8, err |-> "unexpected end of header"]
                 ELSE IF Len(data) < o10
                 THEN [h |-> [named EXCEPT !.Reserved = Field(data, o8, ReservedSize)],
                       n |-> o9, err |-> "unexpected end of header"]
                 ELSE [h |-> [named EXCEPT
                                 !.Reserved = Field(data, o8, ReservedSize),
                                 !.Checksum = Field(data, o9, ChecksumSize)],
                       n |-> o10, err |-> ""]

(***************************************************************************)
(* Cryptographic primitives (package crypto).                              *)
(***************************************************************************)
\* stand-in for pbkdf2.Key(password, salt, iterations, keyLen, sha256.New):
\* every key byte depends on the password, the salt and the iteration count
Pbkdf2Key(password, salt, iterations, keyLen) ==
    [i \in 1..keyLen |->
        ( salt[((i - 1) % Len(salt)) + 1]
        + (IF password = <<>> THEN 0
           ELSE password[((i - 1) % Len(password)) + 1])
        + iterations ) % 256]

DeriveKey(password, salt, iterations) ==
    Pbkdf2Key(password, salt,
              IF iterations <= 0 THEN DefaultIterations ELSE iterations,
              KeySize)

\* stand-in for the AES-CTR keystream byte i under key and nonce
KeyStream(key, nonce, i) ==
    (key[((i - 1) % KeySize) + 1] + nonce[((i - 1) % NonceSize) + 1] + i) % 256

\* stand-in for the GCM tag over the ciphertext: depends on every byte of
\* the key, the nonce and the ciphertext, and on the ciphertext length
GcmTag(key, nonce, ct) ==
    [i \in 1..TagSize |->
        ( key[i] + 3 * key[i + TagSize]
        + (IF i <= NonceSize THEN nonce[i] ELSE 0)
        + Len(ct) + StrideSum(ct, i) ) % 256]

\* gcm.Seal(nil, nonce, plaintext, nil): ciphertext followed by the tag
GcmSeal(key, nonce, plaintext) ==
    LET ct == [i \in 1..Len(plaintext) |->
                  (plaintext[i] + KeyStream(key, nonce, i)) % 256]
    IN  ct \o GcmTag(key, nonce, ct)

\* gcm.Open(nil, nonce, fullCiphertext, nil): the plaintext, or an error when
\* the tag does not verify
GcmOpen(key, nonce, full) ==
    LET ct == SubSeq(full, 1, Len(full) - TagSize)
        tag == SubSeq(full, Len(full) - TagSize + 1, Len(full))
    IN  IF Len(full) < TagSize \/ tag # GcmTag(key, nonce, ct)
        THEN [ok |-> FALSE, plaintext |-> <<>>]
        ELSE [ok |-> TRUE,
              plaintext |-> [i \in 1..Len(ct) |->
                  (ct[i] + 256 - KeyStream(key, nonce, i)) % 256]]

\* NewAESCipher: the key must have KeySize bytes
NewAESCipher(key) == [ok |-> Len(key) = KeySize, key |-> key]

\* a variant that derives the key from the salt alone
NewAESCipherFromSalt(password, salt) ==
    NewAESCipher(DeriveKey(<<>>, salt, DefaultIterations))

NewAESCipherFromPassword(password, salt) ==
    NewAESCipher(DeriveKey(password, salt, DefaultIterations))

\* AESCipher.EncryptWithNonce: as AESCipher.Encrypt, with the nonce given by
\* the caller instead of drawn; the ciphertext and the detached tag
EncryptWithNonce(key, plaintext, nonce) ==
    LET sealed == GcmSeal(key, nonce, plaintext)
        tagStart == Len(sealed) - TagSize
    IN  [Nonce |-> nonce,
         Ciphertext |-> SubSeq(sealed, 1, tagStart),
         Tag |-> SubSeq(sealed, tagStart + 1, Len(sealed))]

ErrInvalidNonceSize == "invalid nonce size"
ErrInvalidTagSize == "invalid tag size"
ErrDecryptionFailed == "decryption failed: authentication failed"

\* a variant that returns the decrypted bytes without verifying the tag
DecryptUnauthenticated(key, data) ==
    [plaintext |-> [i \in 1..Len(data.Ciphertext) |->
                      (data.Ciphertext[i] + 256 - KeyStream(key, data.Nonce, i)) % 256],
     err |-> ""]

\* AESCipher.Decrypt: the plaintext, or the error ("" for nil)
Decrypt(key, data) ==
    IF Len(data.Nonce) # NonceSize
    THEN [plaintext |-> <<>>, err |-> ErrInvalidNonceSize]
    ELSE IF Len(data.Tag) # TagSize
    THEN [plaintext |-> <<>>, err |-> ErrInvalidTagSize]
    ELSE LET r == GcmOpen(key, data.Nonce, data.Ciphertext \o data.Tag)
         IN  IF r.ok THEN [plaintext |-> r.plaintext, err |-> ""]
             ELSE [plaintext |-> <<>>, err |-> ErrDecryptionFailed]

\* SecureZero: the buffer after the call
SecureZero(data) == [i \in 1..Len(data) |-> 0]

\* crypto/rand read through GenerateRandomBytes(size): draw number n of a
\* source that never repeats a draw
GenerateRandomBytes(n, size) == LittleEndian(n, size)

\* GenerateSalt32 on draw number n
GenerateSalt32(n) == GenerateRandomBytes(n, SaltSize)

\* a variant that never copies the nonce into the IV
GenerateIV16Unfilled(n) == Zeros(IVSize)

\* GenerateIV16 on draw number n: a 12-byte nonce, then 4 zero bytes
GenerateIV16(n) == GenerateRandomBytes(n, NonceSize) \o Zeros(IVSize - NonceSize)

(***************************************************************************)
(* The file system and the callers' inputs.                                *)
(***************************************************************************)
\* "a": the user's plaintext file, "e": the container path a.enc, ".": the
\* current directory, "x": stands for every path whose name is none of the
\* others
Paths == {"a", "e", ".", "x"}

\* the input paths handed to EncryptFile
EncInputs == {"a"}

\* the output paths handed to EncryptFile
EncOutputs == {"e"}

\* the input paths handed to DecryptFile
DecInputs == {"a", "e"}

\* the output paths handed to DecryptFile; "": the name stored in the header
DecOutputs == {"a", "x", ""}

\* the bytes of each path's name
PathName ==
    ("a" :> <<97>>) @@ ("e" :> <<97, 46, 101, 110, 99>>) @@ ("." :> <<46>>)
    @@ ("x" :> <<120>>)

\* "/"
Separator == 47

RECURSIVE StripTrailingSeparators(_)
StripTrailingSeparators(name) ==
    IF name # <<>> /\ name[Len(name)] = Separator
    THEN StripTrailingSeparators(SubSeq(name, 1, Len(name) - 1))
    ELSE name

RECURSIVE AfterLastSeparator(_)
AfterLastSeparator(name) ==
    IF \E i \in 1..Len(name) : name[i] = Separator
    THEN AfterLastSeparator(Tail(name))
    ELSE name

\* filepath.Base on the bytes of a path
FilepathBase(name) ==
    IF name = <<>> THEN PathName["."]
    ELSE LET stripped == StripTrailingSeparators(name)
         IN  IF stripped = <<>> THEN <<Separator>>
             ELSE AfterLastSeparator(stripped)

\* the path a name denotes in the working directory
PathOfName(name) ==
    IF \E p \in Paths : PathName[p] = name
    THEN CHOOSE p \in Paths : PathName[p] = name
    ELSE "x"

\* the empty password and a one-byte password
Passwords == {<<>>, <<112>>}

\* the byte values plaintexts are drawn from
SampleBytes == {0, 255}

RECURSIVE SeqsUpTo(_, _)
SeqsUpTo(S, n) ==
    IF n = 0 THEN {<<>>}
    ELSE LET shorter == SeqsUpTo(S, n - 1)
         IN  shorter \cup {Append(s, b) : s \in shorter, b \in S}

Plaintexts == SeqsUpTo(SampleBytes, MaxLen)

NoFile == [kind |-> "none", data |-> <<>>]
Directory == [kind |-> "dir", data |-> <<>>]
File(data) == [kind |-> "file", data |-> data]

\* where a file's content comes from: enc is the index in encLog of the
\* successful EncryptFile call that wrote it (0: none), flip the <<position,
\* bit>> inverted in it since (<<>>: none), cut the number of bytes removed
\* from its end since
NoProv == [enc |-> 0, flip |-> <<>>, cut |-> 0]

VARIABLES
    fs,      \* the file system: path -> entry
    rng,     \* number of draws made from the random source
    faults,  \* number of I/O failures injected so far
    encLog,  \* history: one record per EncryptFile call that reached the random source
    prov,    \* history: path -> provenance of its content
    last,    \* the call that has just returned: arguments, result, observations
    cfg,     \* the *config.Config the program holds (NoConfig: nil)
    runs,    \* number of command-line runs made so far
    sb,      \* the *security.SecureBuffer the goroutines share (NoBuffer: none yet)
    sw,      \* the *fileops.StreamWriter the goroutines share (NoWriter: none yet)
    pc       \* goroutine -> where it is in the call it is making, with its locals

vars == <<fs, rng, faults, encLog, prov, last, cfg, runs, sb, sw, pc>>

NoOp == [op |-> "none"]

\* the nil *Config
NoConfig == [nil |-> TRUE]

\* no SecureBuffer and no StreamWriter allocated yet
NoBuffer == [nil |-> TRUE]
NoWriter == [nil |-> TRUE]

\* the goroutines of a concurrent run
Goroutines == {"g1", "g2", "g3"}

\* a goroutine that is in no call
Idle == [at |-> "idle"]

Init ==
    /\ \E m \in Plaintexts :
         fs = [p \in Paths |->
                 IF p = "a" THEN File(m)
                 ELSE IF p = "." THEN Directory
                 ELSE NoFile]
    /\ rng = 0
    /\ faults = 0
    /\ encLog = <<>>
    /\ prov = [p \in Paths |-> NoProv]
    /\ last = NoOp
    /\ cfg = NoConfig
    /\ runs = 0
    /\ sb = NoBuffer
    /\ sw = NoWriter
    /\ pc = [g \in Goroutines |-> Idle]

(***************************************************************************)
(* I/O failures the environment can inject into one call: the place and,   *)
(* for a failing write, the number of bytes that still reached the file.   *)
(***************************************************************************)
NoFault == [at |-> "none", n |-> 0]

\* bytes of a failing Write that still reach the file
PartialWrites == {0, 1}

\* number of writes FileHeader.WriteTo makes for a named header
HeaderWriteCount == 10

EncFaults ==
    {NoFault, [at |-> "salt", n |-> 0], [at |-> "iv", n |-> 0],
     [at |-> "read", n |-> 0]}
    \cup {[at |-> "header", n |-> k] : k \in 0..(HeaderWriteCount - 1)}
    \cup {[at |-> w, n |-> k] : w \in {"ciphertext", "tag"}, k \in PartialWrites}

DecFaults == {NoFault} \cup {[at |-> "write", n |-> k] : k \in PartialWrites}

\* os.File.Write(buf) under a failure that lets n bytes through: a write of
\* nothing cannot fail
WriteFails(fault, at, buf) == fault.at = at /\ buf # <<>>

PartialOf(fault, buf) == Take(buf, Min(fault.n, Len(buf) - 1))

(***************************************************************************)
(* File handles.  The handles of one call:                                 *)
(*   opened    the handles os.Open / os.Create returned during the call    *)
(*   open      those not closed yet                                        *)
(*   deferred  the Close calls registered with defer, last one first       *)
(***************************************************************************)
NoHandles == [opened |-> {}, open |-> {}, deferred |-> <<>>]

\* os.Open or os.Create succeeded and returned the handle called name
OpenHandle(h, name) ==
    [h EXCEPT !.opened = @ \cup {name}, !.open = @ \cup {name}]

\* a variant that registers nothing
DeferCloseForgotten(h, name) == h

\* defer name.Close(), the statement after the error check of the open
DeferClose(h, name) == [h EXCEPT !.deferred = <<name>> \o @]

\* the function returns or panics: its deferred calls run, last one first
RECURSIVE RunDeferred(_)
RunDeferred(h) ==
    IF h.deferred = <<>> THEN h
    ELSE RunDeferred([h EXCEPT !.open = @ \ {Head(h.deferred)},
                               !.deferred = Tail(@)])

(***************************************************************************)
(* core.EncryptFile / EncryptFileWithProgress / encryptSmallFile.          *)
(* The result of one call on file system f with n draws already made:      *)
(*   err         the error returned ("" for nil)                           *)
(*   fs, rng     the file system and the draw count afterwards             *)
(*   drew        the call reached the random source                        *)
(*   created     os.Create of the output succeeded                         *)
(*   salt, iv    the values drawn; nonce: the nonce handed to the cipher   *)
(*   plaintext   what io.ReadAll returned                                  *)
(*   ciphertext  what the cipher returned for it                           *)
(*   keyDerived  NewAESCipherFromPassword ran                              *)
(*   keyBuf      the derived-key buffer when the call returns              *)
(*   ptBuf       the plaintext buffer when the call returns                *)
(*   faulted     the injected failure was hit                              *)
(***************************************************************************)
\* the nonce encryptSmallFile hands to the cipher: the first 12 bytes of the IV
EncryptNonce(iv) == SubSeq(iv, 1, NonceSize)

EncResult(err, f, n, drew, created, salt, iv, nonce, plaintext, ciphertext, keyDerived, keyBuf, ptBuf) ==
    [err |-> err, fs |-> f, rng |-> n, drew |-> drew, created |-> created,
     ciphertext |-> ciphertext,
     faulted |-> err \in {"failed to generate salt", "failed to generate IV",
                          "failed to write header", "failed to read input file",
                          "failed to write encrypted data",
                          "failed to write auth tag"},
     salt |-> salt, iv |-> iv, nonce |-> nonce, plaintext |-> plaintext,
     keyDerived |-> keyDerived, keyBuf |-> keyBuf, ptBuf |-> ptBuf]

EncryptFileWithProgress(f, n, inputPath, outputPath, password, fault) ==
    LET salt == GenerateSalt32(n + 1)
        iv == GenerateIV16(n + 2)
        size == Len(f[inputPath].data)
        originalFileName == FilepathBase(PathName[inputPath])
        header == NewFileHeader(size, originalFileName, salt, iv)
        \* os.Create truncates the output
        f1 == [f EXCEPT ![outputPath] = File(<<>>)]
        w == WriteTo(header, IF fault.at = "header" THEN fault.n ELSE HeaderWriteCount)
        f2 == [f1 EXCEPT ![outputPath] = File(w.bytes)]
        cipher == NewAESCipherFromPassword(password, salt)
        \* encryptSmallFile: io.ReadAll reads the input as it is now
        plaintext == f2[inputPath].data
        nonce == EncryptNonce(iv)
        encryptedData == EncryptWithNonce(cipher.key, plaintext, nonce)
        ctFails == WriteFails(fault, "ciphertext", encryptedData.Ciphertext)
        ctWritten ==
            IF ctFails THEN PartialOf(fault, encryptedData.Ciphertext)
            ELSE encryptedData.Ciphertext
        f3 == [f2 EXCEPT ![outputPath] = File(w.bytes \o ctWritten)]
        tagFails == WriteFails(fault, "tag", encryptedData.Tag)
        tagWritten ==
            IF tagFails THEN PartialOf(fault, encryptedData.Tag)
            ELSE encryptedData.Tag
        f4 == [f3 EXCEPT ![outputPath] = File(w.bytes \o ctWritten \o tagWritten)]
    IN  IF f[inputPath].kind # "file"
        THEN EncResult("failed to open input file", f, n, FALSE, FALSE,
                       <<>>, <<>>, <<>>, <<>>, <<>>, FALSE, <<>>, <<>>)
        ELSE IF fault.at = "salt"
        THEN EncResult("failed to generate salt", f, n, TRUE, FALSE,
                       <<>>, <<>>, <<>>, <<>>, <<>>, FALSE, <<>>, <<>>)
        ELSE IF fault.at = "iv"
        THEN EncResult("failed to generate IV", f, n + 1, TRUE, FALSE,
                       salt, <<>>, <<>>, <<>>, <<>>, FALSE, <<>>, <<>>)
        ELSE IF f[outputPath].kind = "dir"
        THEN EncResult("failed to create output file", f, n + 2, TRUE, FALSE,
                       salt, iv, <<>>, <<>>, <<>>, FALSE, <<>>, <<>>)
        ELSE IF w.err
        THEN EncResult("failed to write header", f2, n + 2, TRUE, TRUE,
                       salt, iv, <<>>, <<>>, <<>>, FALSE, <<>>, <<>>)
        ELSE IF ~cipher.ok
        THEN EncResult("failed to create cipher", f2, n + 2, TRUE, TRUE,
                       salt, iv, <<>>, <<>>, <<>>, TRUE, cipher.key, <<>>)
        ELSE IF fault.at = "read"
        THEN EncResult("failed to read input file", f2, n + 2, TRUE, TRUE,
                       salt, iv, <<>>, <<>>, <<>>, TRUE, cipher.key, <<>>)
        ELSE IF ctFails
        THEN EncResult("failed to write encrypted data", f3, n + 2, TRUE, TRUE,
                       salt, iv, nonce, plaintext, encryptedData.Ciphertext,
                       TRUE, cipher.key, plaintext)
        ELSE IF tagFails
        THEN EncResult("failed to write auth tag", f4, n + 2, TRUE, TRUE,
                       salt, iv, nonce, plaintext, encryptedData.Ciphertext,
                       TRUE, cipher.key, plaintext)
        ELSE EncResult("", f4, n + 2, TRUE, TRUE,
                       salt, iv, nonce, plaintext, encryptedData.Ciphertext,
                       TRUE, cipher.key, SecureZero(plaintext))

\* the handles of the call of EncryptFileWithProgress that ended with result
\* r: the input is opened first, the output after the salt and the IV
EncryptHandles(r) ==
    LET h1 == DeferClose(OpenHandle(NoHandles, "inputFile"), "inputFile")
        h2 == DeferClose(OpenHandle(h1, "outputFile"), "outputFile")
    IN  RunDeferred(IF r.err = "failed to open input file" THEN NoHandles
                    ELSE IF r.created THEN h2
                    ELSE h1)

EncryptFile(inputPath, outputPath, password, fault) ==
    /\ last = NoOp
    /\ Len(encLog) < MaxEnc
    /\ UNCHANGED <<sb, sw, pc, cfg, runs>>
    /\ \E r \in {EncryptFileWithProgress(fs, rng, inputPath, outputPath, password, fault)} :
       LET entry == [inputPath |-> inputPath, outputPath |-> outputPath,
                     password |-> password, err |-> r.err,
                     salt |-> r.salt, nonce |-> r.nonce,
                     plaintext |-> r.plaintext, ciphertext |-> r.ciphertext]
           log == IF r.drew THEN Append(encLog, entry) ELSE encLog
       IN  /\ r.faulted => faults < MaxFaults
           /\ faults' = IF r.faulted THEN faults + 1 ELSE faults
           /\ fs' = r.fs
           /\ rng' = r.rng
           /\ encLog' = log
           /\ prov' = IF ~r.created THEN prov
                      ELSE [prov EXCEPT ![outputPath] =
                              IF r.err = "" THEN [NoProv EXCEPT !.enc = Len(log)]
                              ELSE NoProv]
           /\ last' = [op |-> "encrypt", inputPath |-> inputPath,
                       outputPath |-> outputPath, password |-> password,
                       err |-> r.err, created |-> r.created,
                       outChanged |-> r.fs[outputPath] # fs[outputPath],
                       inProv |-> prov[inputPath],
                       faulted |-> r.faulted,
                       keyDerived |-> r.keyDerived, keyBuf |-> r.keyBuf,
                       ptBuf |-> r.ptBuf, ctBuf |-> <<>>, nonce |-> r.nonce,
                       handles |-> EncryptHandles(r)]

(***************************************************************************)
(* core.DecryptFile / DecryptFileWithProgress.  The result of one call:    *)
(*   err         the error returned ("" for nil); PanicError when the call *)
(*               ends in a run-time panic instead of returning             *)
(*   fs          the file system afterwards                                *)
(*   out         the output path used                                      *)
(*   created     os.Create of the output succeeded                         *)
(*   keyDerived  NewAESCipherFromPassword ran                              *)
(*   nonce       the nonce handed to the cipher                            *)
(*   keyBuf, ptBuf, ctBuf  the derived-key, plaintext and ciphertext       *)
(*               buffers when the call ends                                *)
(***************************************************************************)
PanicError == "panic: runtime error: makeslice: len out of range"
AuthenticationError == "decryption failed (wrong password or corrupted file)"
SizeMismatchError == "decrypted size mismatch"

DecResult(err, f, out, created, keyDerived, nonce, keyBuf, ptBuf, ctBuf) ==
    [err |-> err, fs |-> f, out |-> out, created |-> created,
     faulted |-> err = "failed to write decrypted data",
     keyDerived |-> keyDerived, nonce |-> nonce,
     keyBuf |-> keyBuf, ptBuf |-> ptBuf, ctBuf |-> ctBuf]

\* a variant that takes the last 12 bytes of the IV
DecryptNonceTail(header) == SubSeq(header.IV, IVSize - NonceSize + 1, IVSize)

\* the nonce DecryptFile hands to the cipher: the first 12 bytes of the IV
DecryptNonce(header) == SubSeq(header.IV, 1, NonceSize)

\* the size of the encrypted data: total - header - auth tag
EncryptedDataSize(fileSize, header) ==
    fileSize - GetTotalSize(header) - AuthTagSize

\* a variant that accepts every decrypted size
SizeUnchecked(plaintext, header) == TRUE

\* the check of the decrypted size against the header
SizeMatches(plaintext, header) ==
    LittleEndian(Len(plaintext), OriginalSizeSize) = header.OriginalSize

\* a variant that reports a failed tag verification as a size mismatch
DecryptErrorAsSizeMismatch(cause) == SizeMismatchError

\* the error DecryptFile returns when cipher.Decrypt fails with cause: one
\* message, whatever made the tag verification fail
DecryptError(cause) == AuthenticationError

DecryptFileWithProgress(f, inputPath, outputArg, password, fault) ==
    LET data == f[inputPath].data
        rd == ReadFrom(data)
        header == rd.h
        \* filepath.Base never returns "", so the ".enc" fallback is dead code
        outputPath ==
            IF outputArg = "" THEN PathOfName(FilepathBase(header.FileName))
            ELSE outputArg
        cipher == NewAESCipherFromPassword(password, header.Salt)
        encryptedDataSize == EncryptedDataSize(Len(data), header)
        \* io.ReadFull from the offset ReadFrom stopped at
        encryptedData == SubSeq(data, rd.n + 1, rd.n + encryptedDataSize)
        tagOff == rd.n + encryptedDataSize
        authTag == SubSeq(data, tagOff + 1, tagOff + AuthTagSize)
        nonce == DecryptNonce(header)
        cryptoData == [Nonce |-> nonce, Ciphertext |-> encryptedData, Tag |-> authTag]
        dec == Decrypt(cipher.key, cryptoData)
        plaintext == dec.plaintext
        f1 == [f EXCEPT ![outputPath] = File(<<>>)]
        wFails == WriteFails(fault, "write", plaintext)
        f2 == [f1 EXCEPT ![outputPath] =
                 File(IF wFails THEN PartialOf(fault, plaintext) ELSE plaintext)]
    IN  IF f[inputPath].kind = "none"
        THEN DecResult("failed to open input file", f, outputArg, FALSE, FALSE,
                       <<>>, <<>>, <<>>, <<>>)
        ELSE IF f[inputPath].kind = "dir" \/ rd.err # ""
        THEN DecResult("failed to read header", f, outputArg, FALSE, FALSE,
                       <<>>, <<>>, <<>>, <<>>)
        ELSE IF IsValid(header) # ""
        THEN DecResult("invalid file format", f, outputArg, FALSE, FALSE,
                       <<>>, <<>>, <<>>, <<>>)
        ELSE IF ~cipher.ok
        THEN DecResult("failed to create cipher", f, outputPath, FALSE, TRUE,
                       <<>>, cipher.key, <<>>, <<>>)
        ELSE IF encryptedDataSize < 0
        THEN \* make([]byte, encryptedDataSize) panics
             DecResult(PanicError, f, outputPath, FALSE, TRUE,
                       <<>>, cipher.key, <<>>, <<>>)
        ELSE IF Len(data) < rd.n + encryptedDataSize
        THEN DecResult("failed to read encrypted data", f, outputPath, FALSE, TRUE,
                       <<>>, cipher.key, <<>>, SubSeq(data, rd.n + 1, Len(data)))
        ELSE IF Len(data) < tagOff + AuthTagSize
        THEN DecResult("failed to read auth tag", f, outputPath, FALSE, TRUE,
                       <<>>, cipher.key, <<>>, encryptedData)
        ELSE IF dec.err # ""
        THEN DecResult(DecryptError(dec.err), f, outputPath, FALSE, TRUE,
                       nonce, cipher.key, <<>>, encryptedData)
        ELSE IF ~SizeMatches(plaintext, header)
        THEN DecResult(SizeMismatchError, f, outputPath, FALSE, TRUE,
                       nonce, cipher.key, plaintext, encryptedData)
        ELSE IF f[outputPath].kind = "dir"
        THEN DecResult("failed to create output file", f, outputPath, FALSE, TRUE,
                       nonce, cipher.key, plaintext, encryptedData)
        ELSE IF wFails
        THEN DecResult("failed to write decrypted data", f2, outputPath, TRUE, TRUE,
                       nonce, cipher.key, plaintext, encryptedData)
        ELSE DecResult("", f2, outputPath, TRUE, TRUE, nonce, cipher.key,
                       SecureZero(plaintext), SecureZero(encryptedData))

\* the handles of the call of DecryptFileWithProgress that ended with result
\* r: the input is opened first, the output after the size check; the
\* deferred calls run on the makeslice panic as on a return
DecryptHandles(r) ==
    LET h1 == DeferClose(OpenHandle(NoHandles, "inputFile"), "inputFile")
        h2 == DeferClose(OpenHandle(h1, "outputFile"), "outputFile")
    IN  RunDeferred(IF r.err = "failed to open input file" THEN NoHandles
                    ELSE IF r.created THEN h2
                    ELSE h1)

DecryptFile(inputPath, outputArg, password, fault) ==
    /\ last = NoOp
    /\ \E r \in {DecryptFileWithProgress(fs, inputPath, outputArg, password, fault)} :
           /\ r.faulted => faults < MaxFaults
           /\ faults' = IF r.faulted THEN faults + 1 ELSE faults
           /\ fs' = r.fs
           /\ prov' = IF r.created THEN [prov EXCEPT ![r.out] = NoProv] ELSE prov
           /\ last' = [op |-> "decrypt", inputPath |-> inputPath,
                       outputPath |-> r.out, password |-> password,
                       err |-> r.err, created |-> r.created,
                       outChanged |-> r.out # "" /\ r.fs[r.out] # fs[r.out],
                       inProv |-> prov[inputPath],
                       faulted |-> r.faulted,
                       keyDerived |-> r.keyDerived, keyBuf |-> r.keyBuf,
                       ptBuf |-> r.ptBuf, ctBuf |-> r.ctBuf, nonce |-> r.nonce,
                       handles |-> DecryptHandles(r)]
    /\ UNCHANGED <<sb, sw, pc, runs, cfg, rng, encLog>>

(***************************************************************************)
(* security.IsEncryptedFile and core.VerifyFile.                           *)
(***************************************************************************)
\* IsEncryptedFile: the boolean returned and whether an error is returned
IsEncryptedFile(f, filePath) ==
    IF f[filePath].kind = "none"
    THEN [isEncrypted |-> FALSE, err |-> TRUE]
    ELSE IF f[filePath].kind = "dir" \/ Len(f[filePath].data) < MagicSize
    THEN \* file.Read fails or returns fewer than 4 bytes
         [isEncrypted |-> FALSE, err |-> FALSE]
    ELSE [isEncrypted |-> SubSeq(f[filePath].data, 1, MagicSize) = MagicBytes,
          err |-> FALSE]

\* the zero value of VerificationResult with Filename set
NewVerificationResult(filePath) ==
    [IsValid |-> FALSE, FormatValid |-> FALSE, HeaderValid |-> FALSE,
     SizeConsistent |-> FALSE, FileAccessible |-> FALSE, Filename |-> filePath,
     OriginalFilename |-> <<>>, FileSize |-> 0,
     OriginalSize |-> Zeros(OriginalSizeSize), Algorithm |-> "",
     FormatVersion |-> Zeros(VersionSize), ErrorMessage |-> ""]

\* a variant that reports a file that is too small as valid
VerifySizeLenient(result, header) ==
    LET expectedMinSize == GetTotalSize(header) + AuthTagSize
    IN  IF result.FileSize < expectedMinSize
        THEN [result EXCEPT !.ErrorMessage = "File too small", !.IsValid = TRUE]
        ELSE [result EXCEPT !.SizeConsistent = TRUE, !.IsValid = TRUE]

\* the size-consistency check that ends VerifyFile
VerifySize(result, header) ==
    LET expectedMinSize == GetTotalSize(header) + AuthTagSize
    IN  IF result.FileSize < expectedMinSize
        THEN [result EXCEPT !.ErrorMessage = "File too small"]
        ELSE [result EXCEPT !.SizeConsistent = TRUE, !.IsValid = TRUE]

\* a variant that copies the header fields without marking the header valid
HeaderCopiedUnmarked(result, header) ==
    [result EXCEPT
       !.OriginalFilename = header.FileName,
       !.OriginalSize = header.OriginalSize,
       !.FormatVersion = header.Version,
       !.Algorithm =
           IF header.Algorithm = LittleEndian(AlgorithmAES256GCM, AlgorithmSize)
           THEN "AES-256-GCM" ELSE "Unknown"]

\* the header passed IsValid: HeaderValid is set and the header fields are
\* copied into the result
HeaderAccepted(result, header) ==
    [result EXCEPT
       !.HeaderValid = TRUE,
       !.OriginalFilename = header.FileName,
       !.OriginalSize = header.OriginalSize,
       !.FormatVersion = header.Version,
       !.Algorithm =
           IF header.Algorithm = LittleEndian(AlgorithmAES256GCM, AlgorithmSize)
           THEN "AES-256-GCM" ELSE "Unknown"]

VerifyFile(f, filePath) ==
    LET result == NewVerificationResult(filePath)
        \* os.Stat succeeds on files and on directories
        r1 == [result EXCEPT !.FileAccessible = TRUE,
                             !.FileSize = Len(f[filePath].data)]
        enc == IsEncryptedFile(f, filePath)
        r2 == [r1 EXCEPT !.FormatValid = TRUE]
        rd == ReadFrom(f[filePath].data)
        header == rd.h
        r3 == HeaderAccepted(r2, header)
    IN  IF f[filePath].kind = "none"
        THEN [result EXCEPT !.ErrorMessage = "File not accessible"]
        ELSE IF enc.err
        THEN [r1 EXCEPT !.ErrorMessage = "Failed to check file format"]
        ELSE IF ~enc.isEncrypted
        THEN [r1 EXCEPT !.ErrorMessage = "File is not a FileVault encrypted file"]
        ELSE IF rd.err # ""
        THEN [r2 EXCEPT !.ErrorMessage = "Failed to read header"]
        ELSE IF IsValid(header) # ""
        THEN [r2 EXCEPT !.ErrorMessage = "Invalid header"]
        ELSE VerifySize(r3, header)

\* the handles after a call of security.IsEncryptedFile made with handles h:
\* os.Open succeeds on whatever exists, a directory included
IsEncryptedFileHandles(h, f, filePath) ==
    IF f[filePath].kind = "none" THEN h
    ELSE RunDeferred(DeferClose(OpenHandle(h, "IsEncryptedFile.file"),
                                "IsEncryptedFile.file"))

\* the handles of one call of VerifyFile: os.Stat opens none, IsEncryptedFile
\* is called once the file is accessible, and the file is opened again once
\* the format is accepted
VerifyFileHandles(f, filePath) ==
    LET result == VerifyFile(f, filePath)
        h0 == IF result.FileAccessible
              THEN IsEncryptedFileHandles(NoHandles, f, filePath)
              ELSE NoHandles
        h1 == DeferClose(OpenHandle(h0, "VerifyFile.file"), "VerifyFile.file")
    IN  RunDeferred(IF result.FormatValid THEN h1 ELSE h0)

Verify(filePath) ==
    /\ last = NoOp
    /\ last' = [op |-> "verify", inputPath |-> filePath,
                inProv |-> prov[filePath], result |-> VerifyFile(fs, filePath),
                handles |-> VerifyFileHandles(fs, filePath)]
    /\ UNCHANGED <<sb, sw, pc, runs, cfg, fs, rng, faults, encLog, prov>>

\* core.VerifyIntegrity: the basic verification, then the file is opened and
\* its header read again; the password is not used
VerifyIntegrity(f, filePath, password) ==
    LET result == VerifyFile(f, filePath)
        rd == ReadFrom(f[filePath].data)
    IN  IF ~result.IsValid THEN result
        ELSE IF f[filePath].kind = "none"
        THEN [result EXCEPT !.IsValid = FALSE,
                            !.ErrorMessage = "Failed to open for integrity check"]
        ELSE IF f[filePath].kind = "dir" \/ rd.err # ""
        THEN [result EXCEPT !.IsValid = FALSE,
                            !.ErrorMessage = "Failed to re-read header"]
        ELSE result

\* the handles of one call of VerifyIntegrity: those of VerifyFile, then the
\* file is opened once more when the basic verification passed
VerifyIntegrityHandles(f, filePath, password) ==
    LET h0 == VerifyFileHandles(f, filePath)
        h1 == DeferClose(OpenHandle(h0, "VerifyIntegrity.file"),
                         "VerifyIntegrity.file")
    IN  RunDeferred(IF VerifyFile(f, filePath).IsValid /\ f[filePath].kind # "none"
                    THEN h1 ELSE h0)

VerifyDeep(filePath, password) ==
    /\ last = NoOp
    /\ last' = [op |-> "verifyDeep", inputPath |-> filePath,
                password |-> password, inProv |-> prov[filePath],
                result |-> VerifyIntegrity(fs, filePath, password),
                handles |-> VerifyIntegrityHandles(fs, filePath, password)]
    /\ UNCHANGED <<sb, sw, pc, runs, cfg, fs, rng, faults, encLog, prov>>

\* the error VerifyFile returns next to its result: nil on every path
VerifyFileFails(f, filePath) == FALSE

\* the nil *VerificationResult
NilResult == [Filename |-> "nil"]

\* a variant that also gives up on a file that is not valid
BatchGivesUpOnInvalid(result, err) == err \/ ~result.IsValid

\* BatchVerify gives up when VerifyFile returns an error
BatchGivesUp(result, err) == err

\* the loop of BatchVerify from index i on
RECURSIVE BatchVerifyFrom(_, _, _, _)
BatchVerifyFrom(f, filePaths, i, results) ==
    IF i > Len(filePaths) THEN [results |-> results, err |-> ""]
    ELSE LET result == VerifyFile(f, filePaths[i])
         IN  IF BatchGivesUp(result, VerifyFileFails(f, filePaths[i]))
             THEN [results |-> results, err |-> "failed to verify"]
             ELSE BatchVerifyFrom(f, filePaths, i + 1,
                                  [results EXCEPT ![i] = result])

\* core.BatchVerify: the results and the error ("" for nil)
BatchVerify(f, filePaths) ==
    BatchVerifyFrom(f, filePaths, 1, [i \in 1..Len(filePaths) |-> NilResult])

\* the lists of paths handed to BatchVerify
BatchInputs == SeqsUpTo(Paths, MaxBatch)

Batch(filePaths) ==
    /\ last = NoOp
    /\ \E r \in {BatchVerify(fs, filePaths)} :
          last' = [op |-> "batch", filePaths |-> filePaths,
                   results |-> r.results, err |-> r.err]
    /\ UNCHANGED <<sb, sw, pc, runs, cfg, fs, rng, faults, encLog, prov>>

(***************************************************************************)
(* The adversary: inverts one bit of an intact container, or removes bytes *)
(* from the end of a container.  One file is tampered with at a time.      *)
(***************************************************************************)
Intact(p) == prov[p].enc # 0 /\ prov[p].flip = <<>> /\ prov[p].cut = 0

Untampered == \A p \in Paths : prov[p].flip = <<>> /\ prov[p].cut = 0

Bits == 0..7

Flip(p, pos, bit) ==
    /\ last = NoOp
    /\ Untampered
    /\ Intact(p)
    /\ pos \in 1..Len(fs[p].data)
    /\ fs' = [fs EXCEPT ![p] = File(FlipAt(fs[p].data, pos, bit))]
    /\ prov' = [prov EXCEPT ![p].flip = <<pos, bit>>]
    /\ UNCHANGED <<sb, sw, pc, runs, cfg, rng, faults, encLog, last>>

Truncate(p) ==
    /\ last = NoOp
    /\ prov[p].enc # 0 /\ prov[p].flip = <<>>
    /\ \A q \in Paths \ {p} : prov[q].flip = <<>> /\ prov[q].cut = 0
    /\ fs[p].data # <<>>
    /\ fs' = [fs EXCEPT ![p] = File(SubSeq(fs[p].data, 1, Len(fs[p].data) - 1))]
    /\ prov' = [prov EXCEPT ![p].cut = @ + 1]
    /\ UNCHANGED <<sb, sw, pc, runs, cfg, rng, faults, encLog, last>>

(***************************************************************************)
(* The header codec on its own: a header is written to a file with WriteTo *)
(* and read back with ReadFrom into a fresh header.                        *)
(***************************************************************************)
\* the file names given to NewFileHeader: empty, short, of the largest
\* length ReadFrom accepts, and one byte longer
HeaderNames ==
    {<<>>, <<97>>, <<97, 98>>,
     [i \in 1..MaxFileNameLength |-> 97],
     [i \in 1..(MaxFileNameLength + 1) |-> 97]}

\* the original sizes given to NewFileHeader
HeaderSizes == {0, 1, 300}

\* the headers NewFileHeader builds
BuiltHeaders ==
    {NewFileHeader(size, name, GenerateSalt32(1), GenerateIV16(2)) :
        size \in HeaderSizes, name \in HeaderNames}

\* headers whose exported fields were set by hand after NewFileHeader
CraftedHeaders ==
    {[h EXCEPT !.Magic = m, !.Version = v, !.Algorithm = a,
               !.FileNameLength = l, !.Checksum = c] :
        h \in {NewFileHeader(1, <<97>>, GenerateSalt32(1), GenerateIV16(2))},
        m \in {MagicBytes, Zeros(MagicSize)},
        v \in {LittleEndian(FormatVersion, VersionSize),
                LittleEndian(FormatVersion + 1, VersionSize)},
        a \in {LittleEndian(AlgorithmAES256GCM, AlgorithmSize),
                Zeros(AlgorithmSize)},
        l \in {LittleEndian(1, FileNameLengthSize),
                LittleEndian(MaxFileNameLength, FileNameLengthSize),
                LittleEndian(MaxFileNameLength + 1, FileNameLengthSize),
                <<0, 0, 1, 0>>},
        c \in {Zeros(ChecksumSize), [i \in 1..ChecksumSize |-> 255]}}

\* header.WriteTo(file) on the file at path p, the stream failing at write
\* number failAt + 1; built: the header is as NewFileHeader built it
WriteHeader(p, h, failAt, built) ==
    /\ last = NoOp
    /\ fs[p].kind # "dir"
    /\ \E w \in {WriteTo(h, failAt)} :
          /\ fs' = [fs EXCEPT ![p] = File(w.bytes)]
          /\ last' = [op |-> "writeHeader", outputPath |-> p, header |-> h,
                      built |-> built, n |-> w.n, err |-> w.err]
    /\ UNCHANGED <<sb, sw, pc, runs, cfg, rng, faults, encLog, prov>>

\* ReadFrom into a fresh header, on the file WriteTo has just written
ReadHeader ==
    /\ last.op = "writeHeader"
    /\ \E rd \in {ReadFrom(fs[last.outputPath].data)} :
          last' = [op |-> "readHeader", inputPath |-> last.outputPath,
                   written |-> last.header, built |-> last.built,
                   wn |-> last.n, werr |-> last.err,
                   header |-> rd.h, n |-> rd.n, err |-> rd.err]
    /\ UNCHANGED <<sb, sw, pc, runs, cfg, fs, rng, faults, encLog, prov>>

(***************************************************************************)
(* security.SecureBuffer shared by goroutines.  Destroy takes no lock, so  *)
(* each of its statements is a step of its own: the test of cleanupFn, the *)
(* call of cleanupFn, the store of nil into cleanupFn, the store of nil    *)
(* into data.  g1 and g2 call Destroy and Data; g3 is the goroutine that   *)
(* AutoDestroy starts.  sb.data is "array" while the slice refers to the   *)
(* array and "nil" afterwards; cleanups counts the runs of the cleanup     *)
(* function, returned the Destroy calls that returned, cleared holds the   *)
(* goroutines that stored nil into data themselves.                        *)
(***************************************************************************)
Callers == {"g1", "g2"}

\* the bytes the owner keeps in the buffer
Secrets == {<<>>, <<255>>, <<255, 255>>}

\* buf := NewSecureBuffer(len(secret)); copy(buf.Data(), secret).
\* LockMemory returns nil on every platform, so locked is true.
NewSecureBuffer(secret) ==
    /\ sb = NoBuffer
    /\ sb' = [data |-> "array", array |-> secret, size |-> Len(secret),
              locked |-> TRUE, cleanupFn |-> TRUE, destroys |-> 0,
              cleanups |-> 0, returned |-> 0, cleared |-> {}]
    /\ UNCHANGED <<fs, rng, faults, encLog, prov, last, cfg, runs, sw, pc>>

\* g calls sb.AutoDestroy(timeout): the new goroutine g3 starts to sleep
AutoDestroy(g) ==
    /\ sb # NoBuffer
    /\ pc[g] = Idle /\ pc["g3"] = Idle
    /\ pc' = [pc EXCEPT !["g3"] = [at |-> "sleep"]]
    /\ UNCHANGED <<fs, rng, faults, encLog, prov, last, cfg, runs, sw, sb>>

\* time.Sleep(timeout) ends in g3, which calls sb.Destroy()
Wake ==
    /\ pc["g3"].at = "sleep"
    /\ pc' = [pc EXCEPT !["g3"] = [at |-> "check"]]
    /\ UNCHANGED <<fs, rng, faults, encLog, prov, last, cfg, runs, sw, sb>>

\* g calls sb.Destroy()
Destroy(g) ==
    /\ sb # NoBuffer
    /\ pc[g] = Idle
    /\ sb.destroys < MaxDestroy
    /\ sb' = [sb EXCEPT !.destroys = @ + 1]
    /\ pc' = [pc EXCEPT ![g] = [at |-> "check"]]
    /\ UNCHANGED <<fs, rng, faults, encLog, prov, last, cfg, runs, sw>>

\* if sb.cleanupFn != nil
DestroyCheck(g) ==
    /\ pc[g].at = "check"
    /\ pc' = [pc EXCEPT ![g] = [at |-> IF sb.cleanupFn THEN "call" ELSE "clear"]]
    /\ UNCHANGED <<fs, rng, faults, encLog, prov, last, cfg, runs, sw, sb>>

\* sb.cleanupFn() after the test: the field is read again for the call.
\* When another goroutine has stored nil since the test, the call is the
\* call of a nil function (a panic) if the field is loaded again, and runs
\* the function if the value loaded for the test is used.
CleanupOutcomes(cleanupFn) ==
    IF cleanupFn THEN {"run"} ELSE {"run", "panic"}

\* sb.cleanupFn(): SecureZeroMemory(data), then UnlockMemory(data)
DestroyCleanup(g) ==
    /\ pc[g].at = "call"
    /\ \E outcome \in CleanupOutcomes(sb.cleanupFn) :
          IF outcome = "run"
          THEN /\ sb' = [sb EXCEPT !.array = Zeros(Len(@)), !.cleanups = @ + 1]
               /\ pc' = [pc EXCEPT ![g] = [at |-> "unset"]]
          ELSE /\ pc' = [pc EXCEPT ![g] = [at |-> outcome]]
               /\ UNCHANGED sb
    /\ UNCHANGED <<fs, rng, faults, encLog, prov, last, cfg, runs, sw>>

\* sb.cleanupFn = nil
DestroyUnset(g) ==
    /\ pc[g].at = "unset"
    /\ sb' = [sb EXCEPT !.cleanupFn = FALSE]
    /\ pc' = [pc EXCEPT ![g] = [at |-> "clear"]]
    /\ UNCHANGED <<fs, rng, faults, encLog, prov, last, cfg, runs, sw>>

\* sb.data = nil, and Destroy returns; g3 ends
DestroyClear(g) ==
    /\ pc[g].at = "clear"
    /\ sb' = [sb EXCEPT !.data = "nil", !.returned = @ + 1,
                        !.cleared = @ \cup {g}]
    /\ pc' = [pc EXCEPT ![g] = IF g \in Callers THEN Idle ELSE [at |-> "done"]]
    /\ UNCHANGED <<fs, rng, faults, encLog, prov, last, cfg, runs, sw>>

\* the values a read of sb.data by g can give.  No lock or channel orders
\* the store of nil by another goroutine before the read, so the read can
\* give the slice or nil; a goroutine sees its own store.
DataValues(buffer, g) ==
    IF buffer.data = "nil" /\ g \notin buffer.cleared THEN {"nil", "array"}
    ELSE {buffer.data}

\* g calls sb.Data(); afterDestroy: a Destroy call had returned by then
Data(g) ==
    /\ sb # NoBuffer
    /\ g \in Callers /\ pc[g] = Idle
    /\ \E value \in DataValues(sb, g) :
          pc' = [pc EXCEPT ![g] = [at |-> "data", value |-> value,
                                   afterDestroy |-> sb.returned > 0]]
    /\ UNCHANGED <<fs, rng, faults, encLog, prov, last, cfg, runs, sw, sb>>

\* g goes on after Data() returned
DataReturn(g) ==
    /\ pc[g].at = "data"
    /\ pc' = [pc EXCEPT ![g] = Idle]
    /\ UNCHANGED <<fs, rng, faults, encLog, prov, last, cfg, runs, sw, sb>>

(***************************************************************************)
(* fileops.StreamWriter shared by goroutines.  sw.file is the content of   *)
(* the file, sw.buf the bytes the bufio.Writer holds back, sw.mutex the    *)
(* goroutine that holds the write lock ("": none), sw.readers the holders  *)
(* of the read lock.  History: content0 is what the file held when the     *)
(* writer was made, done the bytes of each call that returned, in the      *)
(* order of their return, overlapped whether a call started while another  *)
(* held the lock.  A call is a sequence of steps: Lock, then               *)
(* writer.Write and bytesWritten += n (a load and a store) for each chunk, *)
(* then Unlock.                                                            *)
(***************************************************************************)
DefaultBufferSize == 64 * 1024

\* the buffer sizes handed to NewStreamWriterWithBuffer
BufferSizes == {2}

\* the chunks the calls write
Chunks == {<<1>>, <<2, 2>>}

\* the lists of chunks handed to WriteBatch
Batches == {<<<<3>>, <<4, 4>>>>}

StreamWriter(content, bufferSize) ==
    [file |-> content, buf |-> <<>>, bytesWritten |-> Len(content),
     bufferSize |-> bufferSize, mutex |-> "", readers |-> {},
     content0 |-> content, done |-> <<>>, calls |-> 0, overlapped |-> FALSE]

\* NewStreamWriter: os.Create empties the file
NewStreamWriter ==
    /\ sw = NoWriter
    /\ sw' = StreamWriter(<<>>, DefaultBufferSize)
    /\ UNCHANGED <<fs, rng, faults, encLog, prov, last, cfg, runs, sb, pc>>

NewStreamWriterWithBuffer(bufferSize) ==
    /\ sw = NoWriter
    /\ sw' = StreamWriter(<<>>, bufferSize)
    /\ UNCHANGED <<fs, rng, faults, encLog, prov, last, cfg, runs, sb, pc>>

\* NewStreamWriterAppend on the file at path p: bytesWritten starts at the
\* size of the file
NewStreamWriterAppend(p) ==
    /\ sw = NoWriter
    /\ fs[p].kind = "file"
    /\ sw' = StreamWriter(fs[p].data, DefaultBufferSize)
    /\ UNCHANGED <<fs, rng, faults, encLog, prov, last, cfg, runs, sb, pc>>

\* bufio.Writer.Write(p) with no I/O error: while p does not fit, a write
\* into an empty buffer goes to the file directly, otherwise the buffer is
\* filled and flushed; what is left is copied into the buffer
RECURSIVE BufioWrite(_, _, _, _)
BufioWrite(buf, file, size, p) ==
    IF Len(p) > size - Len(buf)
    THEN IF buf = <<>> THEN [buf |-> <<>>, file |-> file \o p]
         ELSE BufioWrite(<<>>, file \o buf \o Take(p, size - Len(buf)), size,
                         Drop(p, size - Len(buf)))
    ELSE [buf |-> buf \o p, file |-> file]

\* a variant in which the lock excludes nobody
CanLockAlways(w) == TRUE

\* sync.RWMutex: Lock goes through when nobody holds the lock
CanLock(w) == w.mutex = "" /\ w.readers = {}

\* RLock goes through when nobody holds the write lock
CanRLock(w) == w.mutex = ""

\* g starts a call that writes chunks
StartCall(g, op, chunks) ==
    /\ sw # NoWriter
    /\ g \in Callers /\ pc[g] = Idle
    /\ sw.calls < MaxCalls
    /\ sw' = [sw EXCEPT !.calls = @ + 1,
                        !.overlapped = @ \/ sw.mutex # ""]
    /\ pc' = [pc EXCEPT ![g] = [at |-> "lock", op |-> op, chunks |-> chunks,
                                i |-> 1, n |-> 0, loaded |-> 0]]
    /\ UNCHANGED <<fs, rng, faults, encLog, prov, last, cfg, runs, sb>>

\* g calls sw.Write(data)
Write(g, data) == StartCall(g, "Write", <<data>>)

\* g calls sw.WriteChunk(chunk), which calls sw.Write(chunk)
WriteChunk(g, chunk) == StartCall(g, "WriteChunk", <<chunk>>)

\* g calls sw.WriteBatch(chunks)
WriteBatch(g, chunks) == StartCall(g, "WriteBatch", chunks)

\* sw.mutex.Lock()
Lock(g) ==
    /\ pc[g].at = "lock"
    /\ CanLock(sw)
    /\ sw' = [sw EXCEPT !.mutex = g]
    /\ pc' = [pc EXCEPT ![g].at = "write"]
    /\ UNCHANGED <<fs, rng, faults, encLog, prov, last, cfg, runs, sb>>

\* n, err := sw.writer.Write(chunk)
WriterWrite(g) ==
    /\ pc[g].at = "write"
    /\ \E w \in {BufioWrite(sw.buf, sw.file, sw.bufferSize, pc[g].chunks[pc[g].i])} :
          sw' = [sw EXCEPT !.buf = w.buf, !.file = w.file]
    /\ pc' = [pc EXCEPT ![g].at = "load", ![g].n = Len(pc[g].chunks[pc[g].i])]
    /\ UNCHANGED <<fs, rng, faults, encLog, prov, last, cfg, runs, sb>>

\* sw.bytesWritten += int64(n): the load
LoadCount(g) ==
    /\ pc[g].at = "load"
    /\ pc' = [pc EXCEPT ![g].at = "store", ![g].loaded = sw.bytesWritten]
    /\ UNCHANGED <<fs, rng, faults, encLog, prov, last, cfg, runs, sb, sw>>

\* sw.bytesWritten += int64(n): the store; then the next chunk of a batch,
\* or the end of the call
StoreCount(g) ==
    /\ pc[g].at = "store"
    /\ sw' = [sw EXCEPT !.bytesWritten = pc[g].loaded + pc[g].n]
    /\ pc' = IF pc[g].i < Len(pc[g].chunks)
             THEN [pc EXCEPT ![g].at = "write", ![g].i = @ + 1]
             ELSE [pc EXCEPT ![g].at = "unlock"]
    /\ UNCHANGED <<fs, rng, faults, encLog, prov, last, cfg, runs, sb>>

\* the deferred sw.mutex.Unlock(), and the call returns
Unlock(g) ==
    /\ pc[g].at = "unlock"
    /\ sw' = [sw EXCEPT !.mutex = "",
                        !.done = Append(@, Concat(pc[g].chunks))]
    /\ pc' = [pc EXCEPT ![g] = Idle]
    /\ UNCHANGED <<fs, rng, faults, encLog, prov, last, cfg, runs, sb>>

\* g calls sw.Flush(): Lock, writer.Flush(), Unlock
Flush(g) ==
    /\ sw # NoWriter
    /\ pc[g] = Idle
    /\ CanLock(sw)
    /\ sw.buf # <<>>
    /\ sw' = [sw EXCEPT !.file = @ \o sw.buf, !.buf = <<>>]
    /\ UNCHANGED <<fs, rng, faults, encLog, prov, last, cfg, runs, sb, pc>>

\* g calls sw.GetBytesWritten()
GetBytesWritten(g) ==
    /\ sw # NoWriter
    /\ pc[g] = Idle
    /\ pc' = [pc EXCEPT ![g] = [at |-> "rlock", op |-> "GetBytesWritten"]]
    /\ UNCHANGED <<fs, rng, faults, encLog, prov, last, cfg, runs, sb, sw>>

\* sw.mutex.RLock()
RLock(g) ==
    /\ pc[g].at = "rlock"
    /\ CanRLock(sw)
    /\ sw' = [sw EXCEPT !.readers = @ \cup {g}]
    /\ pc' = [pc EXCEPT ![g].at = "read"]
    /\ UNCHANGED <<fs, rng, faults, encLog, prov, last, cfg, runs, sb>>

\* return sw.bytesWritten: the value is read; completed is the number of
\* bytes of the file at the start and of the calls that have returned
ReadCount(g) ==
    /\ pc[g].at = "read"
    /\ pc' = [pc EXCEPT ![g] =
                 [at |-> "runlock", op |-> "GetBytesWritten",
                  value |-> sw.bytesWritten,
                  completed |-> Len(sw.content0) + Len(Concat(sw.done))]]
    /\ UNCHANGED <<fs, rng, faults, encLog, prov, last, cfg, runs, sb, sw>>

\* the deferred sw.mutex.RUnlock(), and GetBytesWritten returns
RUnlock(g) ==
    /\ pc[g].at = "runlock"
    /\ sw' = [sw EXCEPT !.readers = @ \ {g}]
    /\ pc' = [pc EXCEPT ![g].at = "got"]
    /\ UNCHANGED <<fs, rng, faults, encLog, prov, last, cfg, runs, sb>>

\* g goes on after GetBytesWritten returned
GetReturn(g) ==
    /\ pc[g].at = "got"
    /\ pc' = [pc EXCEPT ![g] = Idle]
    /\ UNCHANGED <<fs, rng, faults, encLog, prov, last, cfg, runs, sb, sw>>

(***************************************************************************)
(* The legacy header of fileops/format.go: seven fixed-size fields written *)
(* one after the other with binary.Write, no name field.  The fields are   *)
(* kept in their little-endian byte form.                                  *)
(***************************************************************************)
\* HeaderSize, "Total header size"
HeaderSize == 64

\* MagicNumber = 0x46565431
MagicNumber == 1179014193

\* the sizes of Salt [16]byte and Reserved [8]byte
LegacySaltSize == 16
LegacyReservedSize == 8

\* the sizes of the fields of the struct, in the order WriteTo writes them:
\* Magic uint32, Version uint32, Salt, Nonce [12]byte, AuthTag [16]byte,
\* OriginalSize uint64, Reserved
LegacyFieldSizes ==
    <<MagicSize, VersionSize, LegacySaltSize, NonceSize, TagSize,
      OriginalSizeSize, LegacyReservedSize>>

LegacyFieldNames ==
    <<"magic", "version", "salt", "nonce", "auth tag", "original size", "reserved">>

\* the number of bytes the first k fields take
RECURSIVE LegacyOffset(_)
LegacyOffset(k) ==
    IF k = 0 THEN 0 ELSE LegacyOffset(k - 1) + LegacyFieldSizes[k]

\* format.go NewFileHeader, with the other fields as the caller set them
LegacyHeader(salt, nonce, authTag, originalSize) ==
    [Magic |-> LittleEndian(MagicNumber, MagicSize),
     Version |-> LittleEndian(FormatVersion, VersionSize),
     Salt |-> salt, Nonce |-> nonce, AuthTag |-> authTag,
     OriginalSize |-> LittleEndian(originalSize, OriginalSizeSize),
     Reserved |-> Zeros(LegacyReservedSize)]

\* the byte strings the binary.Write calls of WriteTo put on the stream
LegacyWrites(h) ==
    <<h.Magic, h.Version, h.Salt, h.Nonce, h.AuthTag, h.OriginalSize, h.Reserved>>

\* format.go FileHeader.WriteTo, the stream failing at write number
\* failAt + 1: the bytes put on the stream, the count returned and whether
\* an error is returned
LegacyWriteTo(h, failAt) ==
    LET ws == LegacyWrites(h)
        done == Min(failAt, Len(ws))
    IN  [bytes |-> Concat(SubSeq(ws, 1, done)),
         n |-> IF failAt < Len(ws) THEN 0 ELSE HeaderSize,
         err |-> failAt < Len(ws)]

\* format.go FileHeader.IsValid
LegacyIsValid(h) ==
    IF h.Magic # LittleEndian(MagicNumber, MagicSize) THEN "invalid magic number"
    ELSE IF h.Version # LittleEndian(FormatVersion, VersionSize)
    THEN "unsupported version"
    ELSE ""

\* format.go FileHeader.ReadFrom on a stream holding data: the header read,
\* the count and the error returned, and the number of bytes taken from the
\* stream (binary.Read takes what is there when a field is cut short)
LegacyReadFrom(data) ==
    LET \* a field that is cut short is not stored and stays zero
        Part(k) == IF Len(data) < LegacyOffset(k) THEN Zeros(LegacyFieldSizes[k])
                   ELSE SubSeq(data, LegacyOffset(k - 1) + 1, LegacyOffset(k))
        h == [Magic |-> Part(1), Version |-> Part(2), Salt |-> Part(3),
              Nonce |-> Part(4), AuthTag |-> Part(5),
              OriginalSize |-> Part(6), Reserved |-> Part(7)]
        short == {k \in 1..Len(LegacyFieldSizes) : Len(data) < LegacyOffset(k)}
        first == CHOOSE k \in short : \A j \in short : k <= j
    IN  IF short # {}
        THEN [h |-> h, n |-> 0, consumed |-> Len(data),
              err |-> "failed to read " \o LegacyFieldNames[first]]
        ELSE IF LegacyIsValid(h) # ""
        THEN [h |-> h, n |-> 0, consumed |-> LegacyOffset(Len(LegacyFieldSizes)),
              err |-> LegacyIsValid(h)]
        ELSE [h |-> h, n |-> HeaderSize,
              consumed |-> LegacyOffset(Len(LegacyFieldSizes)), err |-> ""]

\* format.go FileHeader.GetSize
LegacyGetSize(h) == HeaderSize

\* the legacy headers written: as NewFileHeader makes them with salt, nonce,
\* tag and size filled in, and with the magic or the version changed
LegacyHeaders ==
    {[h EXCEPT !.Magic = m, !.Version = v] :
        h \in {LegacyHeader([i \in 1..LegacySaltSize |-> s],
                             [i \in 1..NonceSize |-> 2],
                             [i \in 1..TagSize |-> 3], size) :
                  s \in {0, 1}, size \in HeaderSizes},
        m \in {LittleEndian(MagicNumber, MagicSize), MagicBytes},
        v \in {LittleEndian(FormatVersion, VersionSize),
                LittleEndian(FormatVersion + 1, VersionSize)}}

\* what follows the header on the stream
LegacyTails == {<<>>, <<7, 7>>}

\* h.WriteTo(file) on the file at path p, followed by tail when the header
\* was written
LegacyWrite(p, h, failAt, tail) ==
    /\ last = NoOp
    /\ fs[p].kind # "dir"
    /\ \E w \in {LegacyWriteTo(h, failAt)} :
          /\ fs' = [fs EXCEPT ![p] = File(IF w.err THEN w.bytes
                                           ELSE w.bytes \o tail)]
          /\ last' = [op |-> "legacyWrite", outputPath |-> p, header |-> h,
                      n |-> w.n, err |-> w.err, written |-> Len(w.bytes)]
    /\ UNCHANGED <<sb, sw, pc, runs, cfg, rng, faults, encLog, prov>>

\* ReadFrom into a fresh legacy header, on the file WriteTo has just written
LegacyRead ==
    /\ last.op = "legacyWrite"
    /\ \E rd \in {LegacyReadFrom(fs[last.outputPath].data)} :
          last' = [op |-> "legacyRead", inputPath |-> last.outputPath,
                   written |-> last.header, header |-> rd.h, n |-> rd.n,
                   err |-> rd.err, consumed |-> rd.consumed,
                   size |-> LegacyGetSize(rd.h)]
    /\ UNCHANGED <<sb, sw, pc, runs, cfg, fs, rng, faults, encLog, prov>>

(***************************************************************************)
(* Package errors and main: the exit status of the process.                *)
(***************************************************************************)
\* the nil error
NoError == [code |-> "nil", msg |-> ""]

\* an error made by fmt.Errorf: not a *FileVaultError, even when it wraps one
PlainError(msg) == [code |-> "error", msg |-> msg]

\* errors.NewError: a *FileVaultError with an ErrorCode
NewError(code, msg) == [code |-> code, msg |-> msg]

NewFileNotFoundError == NewError("ErrFileNotFound", "file not found")

NewPermissionDeniedError == NewError("ErrFilePermissionDenied", "permission denied")

\* FileVaultError.GetExitCode
GetExitCode(code) ==
    IF code = "ErrFileNotFound" THEN 2
    ELSE IF code = "ErrFilePermissionDenied" THEN 3
    ELSE IF code \in {"ErrInvalidPassword", "ErrAuthenticationFailed"} THEN 4
    ELSE IF code \in {"ErrFileCorrupted", "ErrInvalidFormat"} THEN 5
    ELSE IF code \in {"ErrFileTooLarge", "ErrMemoryError"} THEN 6
    ELSE IF code \in {"ErrInvalidArguments", "ErrInvalidInput"} THEN 7
    ELSE 1

\* errors.HandleError: the type assertion err.(*FileVaultError) looks at the
\* outermost error only
HandleError(err) ==
    IF err = NoError THEN 0
    ELSE IF err.code # "error" THEN GetExitCode(err.code)
    ELSE 1

\* main: os.Exit(HandleError(err)) when the command returns an error, the
\* normal end of main (status 0) otherwise
Main(err) == IF err # NoError THEN HandleError(err) ELSE 0

(***************************************************************************)
(* Package security: validation of the paths and of the password.          *)
(***************************************************************************)
\* strings.Contains(name, sub) for a one- or two-byte sub
Contains(name, sub) ==
    \E i \in 1..(Len(name) - Len(sub) + 1) : SubSeq(name, i, i + Len(sub) - 1) = sub

ValidateFilename(filename) ==
    IF filename = <<>>
    THEN NewError("ErrInvalidInput", "filename cannot be empty")
    ELSE IF Contains(filename, <<46, 46>>)
    THEN NewError("ErrSecurityViolation", "filename contains path traversal sequence")
    ELSE IF filename[1] = Separator
    THEN NewError("ErrSecurityViolation", "filename cannot be an absolute path")
    ELSE IF \E c \in {0, 10, 13} : Contains(filename, <<c>>)
    THEN NewError("ErrSecurityViolation", "filename contains suspicious character")
    ELSE IF Len(filename) > 255
    THEN NewError("ErrInvalidInput", "filename too long")
    ELSE NoError

\* ValidateInputFile; every file of the model is readable and below 10 GB
ValidateInputFile(f, filePath) ==
    IF f[filePath].kind = "none" THEN NewFileNotFoundError
    ELSE IF f[filePath].kind # "file"
    THEN NewError("ErrInvalidInput", "not a regular file")
    ELSE NoError

\* ValidateOutputFile: the error returned and the file system afterwards.
\* Every path of the model lies in the working directory, which exists.
\* The test file is made with os.Create, which truncates an existing file,
\* and is then removed.
ValidateOutputFile(f, filePath, force) ==
    IF ValidateFilename(FilepathBase(PathName[filePath])) # NoError
    THEN [err |-> ValidateFilename(FilepathBase(PathName[filePath])), fs |-> f]
    ELSE IF f[filePath].kind # "none" /\ ~force
    THEN [err |-> NewError("ErrFileAlreadyExists", "output file already exists"),
          fs |-> f]
    ELSE IF f[filePath].kind = "dir"
    THEN [err |-> NewPermissionDeniedError, fs |-> f]
    ELSE [err |-> NoError, fs |-> [f EXCEPT ![filePath] = NoFile]]

IsUpper(c) == c >= 65 /\ c <= 90
IsLower(c) == c >= 97 /\ c <= 122
IsDigit(c) == c >= 48 /\ c <= 57
\* unicode.IsPunct(c) || unicode.IsSymbol(c) on an ASCII character
IsSpecial(c) ==
    \/ c >= 33 /\ c <= 47
    \/ c >= 58 /\ c <= 64
    \/ c >= 91 /\ c <= 96
    \/ c >= 123 /\ c <= 126

\* CheckPasswordStrength on an ASCII password
CheckPasswordStrength(password) ==
    LET length == Len(password)
        Has(Class(_)) == \E i \in 1..length : Class(password[i])
        score ==
            (IF length >= 8 THEN 1 ELSE 0) + (IF length >= 12 THEN 1 ELSE 0)
            + (IF length >= 16 THEN 1 ELSE 0)
            + (IF Has(IsUpper) THEN 1 ELSE 0) + (IF Has(IsLower) THEN 1 ELSE 0)
            + (IF Has(IsDigit) THEN 1 ELSE 0) + (IF Has(IsSpecial) THEN 1 ELSE 0)
    IN  IF score >= 7 THEN "VeryStrong"
        ELSE IF score >= 5 THEN "Strong"
        ELSE IF score >= 3 THEN "Medium"
        ELSE "Weak"

(***************************************************************************)
(* Package commands: the encrypt and decrypt commands.  A run works on the *)
(* world w = [fs, rng, encLog, prov]; its result holds the world           *)
(* afterwards, the error returned and the calls made to core.EncryptFile.  *)
(* What a command only prints (verbose, progress) is left out.             *)
(***************************************************************************)
\* ".enc" and ".decrypted"
DotEnc == <<46, 101, 110, 99>>
DotDecrypted == <<46, 100, 101, 99, 114, 121, 112, 116, 101, 100>>

HasSuffix(name, suffix) ==
    /\ Len(name) >= Len(suffix)
    /\ SubSeq(name, Len(name) - Len(suffix) + 1, Len(name)) = suffix

TrimSuffix(name, suffix) ==
    IF HasSuffix(name, suffix) THEN SubSeq(name, 1, Len(name) - Len(suffix))
    ELSE name

\* the name is that of one of the paths of the model
Known(name) == \E p \in Paths : PathName[p] = name

\* the output name the encrypt command works out; the only directory is the
\* working directory, so filepath.Join(dir, name) is name
EncryptOutputName(f, inputFile, output) ==
    IF output = "" THEN PathName[inputFile] \o DotEnc
    ELSE IF f[output].kind = "dir"
    THEN FilepathBase(PathName[inputFile]) \o DotEnc
    ELSE PathName[output]

\* the output name the decrypt command works out
DecryptOutputName(f, inputFile, output) ==
    LET baseName == FilepathBase(PathName[inputFile])
    IN  IF output = ""
        THEN IF HasSuffix(baseName, DotEnc)
             THEN TrimSuffix(PathName[inputFile], DotEnc)
             ELSE PathName[inputFile] \o DotDecrypted
        ELSE IF f[output].kind = "dir" THEN TrimSuffix(baseName, DotEnc)
        ELSE PathName[output]

\* the one element of a set {e : x \in {value}}: e with x bound to value
The(S) == CHOOSE y \in S : TRUE

\* core.EncryptFile on the world w, with the bookkeeping of the EncryptFile
\* action
CoreEncrypt(w, inputPath, outputPath, password) ==
    The({LET entry == [inputPath |-> inputPath, outputPath |-> outputPath,
                       password |-> password, err |-> r.err,
                       salt |-> r.salt, nonce |-> r.nonce,
                       plaintext |-> r.plaintext, ciphertext |-> r.ciphertext]
             log == IF r.drew THEN Append(w.encLog, entry) ELSE w.encLog
         IN  [err |-> r.err,
              w |-> [fs |-> r.fs, rng |-> r.rng, encLog |-> log,
                     prov |-> IF ~r.created THEN w.prov
                              ELSE [w.prov EXCEPT ![outputPath] =
                                      IF r.err = ""
                                      THEN [NoProv EXCEPT !.enc = Len(log)]
                                      ELSE NoProv]]] :
         r \in {EncryptFileWithProgress(w.fs, w.rng, inputPath, outputPath,
                                        password, NoFault)}})

\* os.Remove(path), its error ignored
Remove(w, path) ==
    IF w.fs[path].kind # "file" THEN w
    ELSE [w EXCEPT !.fs[path] = NoFile, !.prov[path] = NoProv]

\* the world after ValidateOutputFile returned v
Validated(w, v, outputFile) ==
    IF v.fs = w.fs THEN w
    ELSE [w EXCEPT !.fs = v.fs, !.prov[outputFile] = NoProv]

CmdResult(w, err, calls) == [w |-> w, err |-> err, calls |-> calls]

\* the end of a successful encryption: the original is removed unless --keep
RemoveOriginal(w, inputFile, keep) ==
    IF ~keep THEN Remove(w, inputFile) ELSE w

\* the part the two encrypt functions share once the output is validated and
\* the password known: core.EncryptFile, then the removal of the original
EncryptAndRemove(w, inputFile, outputFile, password, keep) ==
    The({IF c.err # ""
         THEN CmdResult(c.w, PlainError("encryption failed"),
                        <<[inputPath |-> inputFile, outputPath |-> outputFile,
                           password |-> password]>>)
         ELSE CmdResult(RemoveOriginal(c.w, inputFile, keep), NoError,
                        <<[inputPath |-> inputFile, outputPath |-> outputFile,
                           password |-> password]>>) :
         c \in {CoreEncrypt(w, inputFile, outputFile, password)}})

\* encryptSingleFileWithPassword (one file of a batch): no password check
encryptSingleFileWithPassword(w, inputFile, password, o) ==
    IF ValidateInputFile(w.fs, inputFile) # NoError
    THEN CmdResult(w, ValidateInputFile(w.fs, inputFile), <<>>)
    ELSE The({The({IF v.err # NoError THEN CmdResult(w, v.err, <<>>)
                   ELSE The({EncryptAndRemove(w1, inputFile, outputFile,
                                              password, o.keep) :
                             w1 \in {Validated(w, v, outputFile)}}) :
                   v \in {ValidateOutputFile(w.fs, outputFile, o.force)}}) :
              outputFile \in {PathOfName(EncryptOutputName(w.fs, inputFile,
                                                           o.output))}})

\* encryptSingleFile: password and confirmation are what the user typed at
\* the two prompts, yes the answer given if the weak-password question is
\* asked
encryptSingleFile(w, inputFile, password, confirmPassword, yes, o) ==
    IF ValidateInputFile(w.fs, inputFile) # NoError
    THEN CmdResult(w, ValidateInputFile(w.fs, inputFile), <<>>)
    ELSE The({The({IF v.err # NoError THEN CmdResult(w, v.err, <<>>)
                   ELSE The({IF password # confirmPassword
                             THEN CmdResult(w1, PlainError("passwords do not match"),
                                            <<>>)
                             ELSE IF /\ CheckPasswordStrength(password) = "Weak"
                                     /\ ~o.force /\ ~o.quiet /\ ~yes
                             THEN CmdResult(w1, PlainError("encryption cancelled due to weak password"),
                                            <<>>)
                             ELSE EncryptAndRemove(w1, inputFile, outputFile,
                                                   password, o.keep) :
                             w1 \in {Validated(w, v, outputFile)}}) :
                   v \in {ValidateOutputFile(w.fs, outputFile, o.force)}}) :
              outputFile \in {PathOfName(EncryptOutputName(w.fs, inputFile,
                                                           o.output))}})

\* the loop of processBatchEncrypt from file number i on; failCount counts
\* the files that failed so far
RECURSIVE BatchEncryptFrom(_, _, _, _, _, _, _)
BatchEncryptFrom(w, files, i, password, o, failCount, calls) ==
    IF i > Len(files)
    THEN CmdResult(w, IF failCount > 0
                      THEN PlainError("batch encryption had failures")
                      ELSE NoError, calls)
    ELSE The({BatchEncryptFrom(r.w, files, i + 1, password, o,
                               IF r.err # NoError THEN failCount + 1
                               ELSE failCount,
                               calls \o r.calls) :
              r \in {encryptSingleFileWithPassword(w, files[i], password, o)}})

processBatchEncrypt(w, files, password, confirmPassword, o) ==
    IF password # confirmPassword
    THEN CmdResult(w, PlainError("passwords do not match"), <<>>)
    ELSE BatchEncryptFrom(w, files, 1, password, o, 0, <<>>)

runEncrypt(w, args, password, confirmPassword, yes, o) ==
    IF Len(args) > 1
    THEN processBatchEncrypt(w, args, password, confirmPassword, o)
    ELSE encryptSingleFile(w, args[1], password, confirmPassword, yes, o)

\* core.DecryptFile on the world w
CoreDecrypt(w, inputPath, outputPath, password) ==
    The({[err |-> r.err,
          w |-> [w EXCEPT !.fs = r.fs,
                          !.prov = IF r.created
                                   THEN [w.prov EXCEPT ![r.out] = NoProv]
                                   ELSE w.prov]] :
         r \in {DecryptFileWithProgress(w.fs, inputPath, outputPath, password,
                                        NoFault)}})

\* the result of a decrypt run: coreErrs holds the errors core.DecryptFile
\* returned
DecCmdResult(w, err, coreErrs) == [w |-> w, err |-> err, coreErrs |-> coreErrs]

\* the part the two decrypt functions share from the output name on
DecryptValidated(w, inputFile, password, o) ==
    The({The({IF v.err # NoError THEN DecCmdResult(w, v.err, <<>>)
              ELSE The({IF c.err # ""
                        THEN DecCmdResult(c.w, PlainError("decryption failed"),
                                          <<c.err>>)
                        ELSE DecCmdResult(c.w, NoError, <<>>) :
                        c \in {CoreDecrypt(Validated(w, v, outputFile),
                                           inputFile, outputFile, password)}}) :
              v \in {ValidateOutputFile(w.fs, outputFile, o.force)}}) :
         outputFile \in {PathOfName(DecryptOutputName(w.fs, inputFile,
                                                      o.output))}})

\* decryptSingleFile: yes is the answer given if the command asks whether to
\* continue with a file that does not look encrypted
decryptSingleFile(w, inputFile, password, yes, o) ==
    IF ValidateInputFile(w.fs, inputFile) # NoError
    THEN DecCmdResult(w, ValidateInputFile(w.fs, inputFile), <<>>)
    ELSE IF ~IsEncryptedFile(w.fs, inputFile).isEncrypted /\ ~yes
    THEN DecCmdResult(w, PlainError("decryption cancelled"), <<>>)
    ELSE DecryptValidated(w, inputFile, password, o)

decryptSingleFileWithPassword(w, inputFile, password, o) ==
    IF ValidateInputFile(w.fs, inputFile) # NoError
    THEN DecCmdResult(w, ValidateInputFile(w.fs, inputFile), <<>>)
    ELSE IF ~IsEncryptedFile(w.fs, inputFile).isEncrypted
    THEN DecCmdResult(w, PlainError("file doesn't appear to be a FileVault encrypted file"),
                      <<>>)
    ELSE DecryptValidated(w, inputFile, password, o)

RECURSIVE BatchDecryptFrom(_, _, _, _, _, _, _)
BatchDecryptFrom(w, files, i, password, o, failCount, coreErrs) ==
    IF i > Len(files)
    THEN DecCmdResult(w, IF failCount > 0
                         THEN PlainError("batch decryption had failures")
                         ELSE NoError, coreErrs)
    ELSE The({BatchDecryptFrom(r.w, files, i + 1, password, o,
                               IF r.err # NoError THEN failCount + 1
                               ELSE failCount,
                               coreErrs \o r.coreErrs) :
              r \in {decryptSingleFileWithPassword(w, files[i], password, o)}})

runDecrypt(w, args, password, yes, o) ==
    IF Len(args) > 1 THEN BatchDecryptFrom(w, args, 1, password, o, 0, <<>>)
    ELSE decryptSingleFile(w, args[1], password, yes, o)

\* the file arguments of a command: the plaintext file, the container path,
\* both, a missing file, a directory
CommandArgs == {<<"a">>, <<"e">>, <<"a", "e">>, <<"x">>, <<".">>}

\* the values of -o
CommandOutputs == {"", "a", "e", "."}

\* the passwords typed at the prompts: "p" (Weak) and "Passw0rd!" (Strong)
TypedPasswords == {<<112>>, <<80, 97, 115, 115, 119, 48, 114, 100, 33>>}


World == [fs |-> fs, rng |-> rng, encLog |-> encLog, prov |-> prov]

\* filevault encrypt args... [-o output] [--force] [--keep] [--quiet]
EncryptCommand(args, output, force, keep, quiet, password, confirmPassword, yes) ==
    /\ last = NoOp
    /\ runs < MaxRuns
    /\ runs' = runs + 1
    /\ Len(encLog) + Len(args) <= MaxEnc
    /\ \A i \in 1..Len(args) : Known(EncryptOutputName(fs, args[i], output))
    /\ \E r \in {runEncrypt(World, args, password, confirmPassword, yes,
                            [output |-> output, force |-> force,
                             keep |-> keep, quiet |-> quiet])} :
          /\ fs' = r.w.fs
          /\ rng' = r.w.rng
          /\ encLog' = r.w.encLog
          /\ prov' = r.w.prov
          /\ last' = [op |-> "encryptCmd", args |-> args, output |-> output,
                      force |-> force, keep |-> keep, quiet |-> quiet,
                      password |-> password,
                      confirmed |-> Len(args) = 1 /\ ~force /\ ~quiet /\ yes,
                      before |-> fs, calls |-> r.calls,
                      err |-> r.err, exit |-> Main(r.err)]
    /\ UNCHANGED <<sb, sw, pc, cfg, faults>>

\* filevault decrypt args... [-o output] [--force]
DecryptCommand(args, output, force, password, yes) ==
    /\ last = NoOp
    /\ runs < MaxRuns
    /\ runs' = runs + 1
    /\ \A i \in 1..Len(args) : Known(DecryptOutputName(fs, args[i], output))
    /\ \E r \in {runDecrypt(World, args, password, yes,
                            [output |-> output, force |-> force])} :
          /\ fs' = r.w.fs
          /\ prov' = r.w.prov
          /\ last' = [op |-> "decryptCmd", args |-> args, output |-> output,
                      force |-> force, password |-> password,
                      before |-> fs, coreErrs |-> r.coreErrs,
                      err |-> r.err, exit |-> Main(r.err)]
    /\ UNCHANGED <<sb, sw, pc, cfg, rng, faults, encLog>>

\* security.ValidateOutputFile(filePath, force) called on its own
ValidateOutput(filePath, force) ==
    /\ last = NoOp
    /\ runs < MaxRuns
    /\ runs' = runs + 1
    /\ \E v \in {ValidateOutputFile(fs, filePath, force)} :
          /\ fs' = v.fs
          /\ prov' = Validated(World, v, filePath).prov
          /\ last' = [op |-> "validateOutput", filePath |-> filePath,
                      force |-> force, before |-> fs, err |-> v.err]
    /\ UNCHANGED <<sb, sw, pc, cfg, rng, faults, encLog>>

(***************************************************************************)
(* Package config.  The path fields (ConfigDir, TempDir, DefaultOutputDir) *)
(* are left out: no check reads them.  The two int64 fields are held in    *)
(* whole KiB (bytes \div 1024): the only test made on them, < 1024 bytes,  *)
(* is < 1 KiB.                                                             *)
(***************************************************************************)
DefaultConfig ==
    [DefaultIterations |-> 100000,
     DefaultAlgorithm |-> "AES-256-GCM",
     BufferSize |-> 64 * 1024,
     PasswordMinLength |-> 12,
     RequireStrongPassword |-> TRUE,
     SecureMemory |-> TRUE,
     UseColors |-> TRUE,
     ShowProgress |-> TRUE,
     VerboseOutput |-> FALSE,
     MaxFileSize |-> 10 * 1024 * 1024,
     StreamingThreshold |-> 1024]

\* Config.Validate: "" for nil, else the first violated bound
Validate(c) ==
    IF c.DefaultIterations < 1000
    THEN "default_iterations must be at least 1000"
    ELSE IF c.DefaultIterations > 10000000
    THEN "default_iterations must not exceed 10,000,000"
    ELSE IF c.PasswordMinLength < 8
    THEN "password_min_length must be at least 8"
    ELSE IF c.PasswordMinLength > 128
    THEN "password_min_length must not exceed 128"
    ELSE IF c.BufferSize < 1024
    THEN "buffer_size must be at least 1024 bytes"
    ELSE IF c.BufferSize > 10 * 1024 * 1024
    THEN "buffer_size must not exceed 10MB"
    ELSE IF c.MaxFileSize < 1
    THEN "max_file_size must be at least 1024 bytes"
    ELSE IF c.StreamingThreshold < 1
    THEN "streaming_threshold must be at least 1024 bytes"
    ELSE ""

\* json.Unmarshal(data, config) for a well-formed document: the fields the
\* document names are overwritten, the others keep their values
Unmarshal(doc, c) ==
    [k \in DOMAIN c |-> IF k \in doc.keys THEN doc.values[k] ELSE c[k]]

\* a document that names the fields in keys, with the values of values
Document(keys, values) == [kind |-> "json", keys |-> keys, values |-> values]

\* the iteration counts given in documents and on the command line
IterationInputs == {-1, 0, 1, 999, 1000, 5000, 10000000, 10000001}

\* the states of the configuration file: absent, unreadable, not JSON, or a
\* JSON document naming some fields
ConfigFiles ==
    {[kind |-> "absent"], [kind |-> "unreadable"], [kind |-> "malformed"],
     Document({}, DefaultConfig)}
    \cup {Document({"DefaultIterations"},
                    [DefaultConfig EXCEPT !.DefaultIterations = n]) :
             n \in IterationInputs}
    \cup {Document({"PasswordMinLength"},
                    [DefaultConfig EXCEPT !.PasswordMinLength = n]) :
             n \in {7, 8, 128, 129}}
    \cup {Document({"BufferSize", "ShowProgress"},
                    [DefaultConfig EXCEPT !.BufferSize = n,
                                          !.ShowProgress = FALSE]) :
             n \in {1023, 1024, 10 * 1024 * 1024, 10 * 1024 * 1024 + 1}}
    \cup {Document({"MaxFileSize", "StreamingThreshold"},
                    [DefaultConfig EXCEPT !.MaxFileSize = m,
                                          !.StreamingThreshold = t]) :
             m \in {0, 1}, t \in {0, 1}}

\* config.Load with the configuration file in state file: the *Config
\* returned (NoConfig for nil) and the error ("" for nil)
Load(file) ==
    LET config == DefaultConfig
        parsed == Unmarshal(file, config)
    IN  IF file.kind = "absent" THEN [config |-> config, err |-> ""]
        ELSE IF file.kind = "unreadable"
        THEN [config |-> NoConfig, err |-> "failed to read config file"]
        ELSE IF file.kind = "malformed"
        THEN [config |-> NoConfig, err |-> "failed to parse config file"]
        ELSE IF Validate(parsed) # ""
        THEN [config |-> NoConfig, err |-> "invalid configuration"]
        ELSE [config |-> parsed, err |-> ""]

\* Config.UpdateFromFlags; colorTerminal: the terminal supports colors
\* (the part of IsColorSupported that depends on the environment)
UpdateFromFlags(c, iterations, verbose, quiet, useColors, colorTerminal) ==
    LET c1 == IF iterations > 0
              THEN [c EXCEPT !.DefaultIterations = iterations] ELSE c
        c2 == IF verbose THEN [c1 EXCEPT !.VerboseOutput = TRUE] ELSE c1
        c3 == IF quiet
              THEN [c2 EXCEPT !.VerboseOutput = FALSE, !.ShowProgress = FALSE]
              ELSE c2
        IsColorSupported == c3.UseColors /\ colorTerminal
    IN  [c3 EXCEPT !.UseColors = useColors /\ IsColorSupported]

\* cfg = config.DefaultConfig()
NewConfig ==
    /\ last = NoOp
    /\ cfg' = DefaultConfig
    /\ last' = [op |-> "defaultConfig"]
    /\ UNCHANGED <<sb, sw, pc, runs, fs, rng, faults, encLog, prov>>

\* cfg, err = config.Load()
LoadConfig(file) ==
    /\ last = NoOp
    /\ \E r \in {Load(file)} :
          /\ cfg' = r.config
          /\ last' = [op |-> "load", file |-> file, err |-> r.err]
    /\ UNCHANGED <<sb, sw, pc, runs, fs, rng, faults, encLog, prov>>

\* cfg.UpdateFromFlags(iterations, verbose, quiet, useColors)
UpdateFlags(iterations, verbose, quiet, useColors, colorTerminal) ==
    /\ last = NoOp
    /\ cfg # NoConfig
    /\ cfg' = UpdateFromFlags(cfg, iterations, verbose, quiet, useColors,
                              colorTerminal)
    /\ last' = [op |-> "updateFromFlags", iterations |-> iterations]
    /\ UNCHANGED <<sb, sw, pc, runs, fs, rng, faults, encLog, prov>>

\* cfg.Reset()
Reset ==
    /\ last = NoOp
    /\ cfg # NoConfig
    /\ cfg' = DefaultConfig
    /\ last' = [op |-> "reset"]
    /\ UNCHANGED <<sb, sw, pc, runs, fs, rng, faults, encLog, prov>>

\* the caller takes the result; the next call can start
Return ==
    /\ last # NoOp
    /\ last' = NoOp
    /\ UNCHANGED <<sb, sw, pc, runs, cfg, fs, rng, faults, encLog, prov>>

\* the pipelines and the verification engine under injected I/O failures
Next ==
    \/ \E i \in EncInputs, o \in EncOutputs, p \in Passwords, ft \in EncFaults :
          EncryptFile(i, o, p, ft)
    \/ \E i \in DecInputs, o \in DecOutputs, p \in Passwords, ft \in DecFaults :
          DecryptFile(i, o, p, ft)
    \/ \E p \in Paths : Verify(p)
    \/ \E p \in Paths, pw \in Passwords : VerifyDeep(p, pw)
    \/ \E ps \in BatchInputs : Batch(ps)
    \/ Return

Spec == Init /\ [][Next]_vars

\* one container is produced on a fresh file system and tampered with; then
\* it is decrypted and verified
TamperNext ==
    \/ \E i \in EncInputs, o \in EncOutputs, p \in Passwords :
          encLog = <<>> /\ EncryptFile(i, o, p, NoFault)
    \/ \E p \in EncOutputs : \E pos \in 1..Len(fs[p].data), bit \in Bits :
          Flip(p, pos, bit)
    \/ \E p \in EncOutputs : Truncate(p)
    \/ \E i \in EncOutputs, o \in DecOutputs, p \in Passwords :
          DecryptFile(i, o, p, NoFault)
    \/ \E p \in Paths : Verify(p)
    \/ \E p \in EncOutputs, pw \in Passwords : VerifyDeep(p, pw)
    \/ Return

TamperSpec == Init /\ [][TamperNext]_vars

\* headers are written, completely or up to a failing write, and read back
HeaderNext ==
    \/ \E h \in BuiltHeaders, failAt \in 0..HeaderWriteCount :
          WriteHeader("x", h, failAt, TRUE)
    \/ \E h \in CraftedHeaders : WriteHeader("x", h, HeaderWriteCount, FALSE)
    \/ ReadHeader
    \/ Return

HeaderSpec == Init /\ [][HeaderNext]_vars

\* a configuration is created or loaded, updated from the command line and
\* reset
ConfigNext ==
    \/ NewConfig
    \/ \E file \in ConfigFiles : LoadConfig(file)
    \/ \E iterations \in IterationInputs, verbose \in BOOLEAN, quiet \in BOOLEAN,
          useColors \in BOOLEAN, colorTerminal \in BOOLEAN :
          UpdateFlags(iterations, verbose, quiet, useColors, colorTerminal)
    \/ Reset
    \/ Return

ConfigSpec == Init /\ [][ConfigNext]_vars

\* a SecureBuffer is made and filled; g1 and g2 call AutoDestroy, Destroy and
\* Data in any order while g3 sleeps and destroys
SecureNext ==
    \/ \E secret \in Secrets : NewSecureBuffer(secret)
    \/ \E g \in Callers : AutoDestroy(g)
    \/ Wake
    \/ \E g \in Callers : Destroy(g)
    \/ \E g \in Goroutines : DestroyCheck(g)
    \/ \E g \in Goroutines : DestroyCleanup(g)
    \/ \E g \in Goroutines : DestroyUnset(g)
    \/ \E g \in Goroutines : DestroyClear(g)
    \/ \E g \in Callers : Data(g)
    \/ \E g \in Callers : DataReturn(g)

SecureSpec == Init /\ [][SecureNext]_vars

\* a StreamWriter is made; g1 and g2 call Write, WriteChunk and WriteBatch,
\* g3 calls Flush and GetBytesWritten, in any interleaving
StreamNext ==
    \/ NewStreamWriter
    \/ \E bufferSize \in BufferSizes : NewStreamWriterWithBuffer(bufferSize)
    \/ NewStreamWriterAppend("a")
    \/ \E g \in Callers, data \in Chunks : Write(g, data)
    \/ \E g \in Callers, chunk \in Chunks : WriteChunk(g, chunk)
    \/ \E g \in Callers, chunks \in Batches : WriteBatch(g, chunks)
    \/ \E g \in Goroutines : Lock(g)
    \/ \E g \in Goroutines : WriterWrite(g)
    \/ \E g \in Goroutines : LoadCount(g)
    \/ \E g \in Goroutines : StoreCount(g)
    \/ \E g \in Goroutines : Unlock(g)
    \/ Flush("g3")
    \/ GetBytesWritten("g3")
    \/ \E g \in Goroutines : RLock(g)
    \/ \E g \in Goroutines : ReadCount(g)
    \/ \E g \in Goroutines : RUnlock(g)
    \/ \E g \in Goroutines : GetReturn(g)

StreamSpec == Init /\ [][StreamNext]_vars

\* legacy headers are written, completely or up to a failing write, and
\* read back
LegacyNext ==
    \/ \E h \in LegacyHeaders, failAt \in 0..Len(LegacyFieldSizes),
          tail \in LegacyTails : LegacyWrite("x", h, failAt, tail)
    \/ LegacyRead
    \/ Return

LegacySpec == Init /\ [][LegacyNext]_vars

\* the commands of the command line, and ValidateOutputFile on its own
CliNext ==
    \/ \E args \in CommandArgs, output \in CommandOutputs, force \in BOOLEAN,
          keep \in BOOLEAN, quiet \in BOOLEAN, password \in TypedPasswords,
          confirmPassword \in TypedPasswords, yes \in BOOLEAN :
          EncryptCommand(args, output, force, keep, quiet, password,
                         confirmPassword, yes)
    \/ \E args \in CommandArgs, output \in CommandOutputs, force \in BOOLEAN,
          password \in TypedPasswords, yes \in BOOLEAN :
          DecryptCommand(args, output, force, password, yes)
    \/ \E filePath \in Paths, force \in BOOLEAN : ValidateOutput(filePath, force)
    \/ Return

CliSpec == Init /\ [][CliNext]_vars

(***************************************************************************)
(* Properties.  They are stated on the call that has just returned (last), *)
(* the history of EncryptFile calls (encLog) and the provenance of the     *)
(* file the call read (last.inProv).                                       *)
(***************************************************************************)
\* the call that has just returned is operation op
Returned(op) == last.op = op

\* DecryptFile has just returned, and the file it read was written by a
\* successful EncryptFile call
DecryptedContainer == Returned("decrypt") /\ last.inProv.enc # 0

\* that file was as EncryptFile left it
ContainerIntact == last.inProv.flip = <<>> /\ last.inProv.cut = 0

\* the EncryptFile call that wrote the file the last call read
Source == encLog[last.inProv.enc]

\* the size of the header that call wrote
SourceHeaderSize == BaseHeaderSize + Len(FilepathBase(PathName[Source.inputPath]))

\* the call wrote nothing: it neither created nor changed its output
NoOutputWritten == ~last.created /\ ~last.outChanged

\* C1: decrypting, with the same password, a container that EncryptFile
\* produced from plaintext m succeeds and writes an output whose content is
\* exactly m, for every m including the empty one (no I/O failure occurring
\* during the call)
RoundTrip ==
    (DecryptedContainer /\ ContainerIntact
        /\ last.password = Source.password /\ ~last.faulted)
    => /\ last.err = ""
       /\ fs[last.outputPath] = File(Source.plaintext)

\* a non-empty plaintext has come back from a round trip
RoundTripDone ==
    /\ DecryptedContainer /\ ContainerIntact
    /\ last.password = Source.password
    /\ last.err = ""
    /\ Source.plaintext # <<>>
    /\ fs[last.outputPath].data = Source.plaintext

\* C2: after one bit of the ciphertext or of the 16-byte tag of a container
\* is inverted, DecryptFile returns the authentication error and writes no
\* output, whatever the password
TamperSensitivity ==
    (DecryptedContainer /\ last.inProv.cut = 0
        /\ last.inProv.flip # <<>> /\ last.inProv.flip[1] > SourceHeaderSize)
    => /\ last.err = AuthenticationError
       /\ NoOutputWritten

\* a container with one ciphertext bit inverted has been rejected under the
\* right password
TamperedCiphertextRejected ==
    /\ DecryptedContainer /\ last.inProv.cut = 0
    /\ last.inProv.flip # <<>>
    /\ last.inProv.flip[1] > SourceHeaderSize
    /\ last.inProv.flip[1] <= SourceHeaderSize + Len(Source.ciphertext)
    /\ last.password = Source.password
    /\ last.err = AuthenticationError
    /\ NoOutputWritten

\* C3: decrypting an intact container with a password other than the one it
\* was encrypted with returns the authentication error, and the output file
\* is neither created nor modified
WrongPassword ==
    (DecryptedContainer /\ ContainerIntact /\ last.password # Source.password)
    => /\ last.err = AuthenticationError
       /\ NoOutputWritten

\* an intact container has been rejected under a wrong password while the
\* output path held a file
WrongPasswordRejected ==
    /\ DecryptedContainer /\ ContainerIntact
    /\ last.password # Source.password
    /\ last.err = AuthenticationError
    /\ fs[last.outputPath].kind = "file"
    /\ NoOutputWritten

\* position pos (from 1) of a file lies in the size bytes after offset off
InField(pos, off, size) == pos > off /\ pos <= off + size

\* the offset of the OriginalSize field in the header
OriginalSizeOffset == MagicSize + VersionSize + AlgorithmSize + SaltSize + IVSize

\* the file the last call read is a container in which one bit of the
\* header has been inverted, outside the checksum
HeaderByteCorrupted ==
    /\ last.inProv.enc # 0 /\ last.inProv.cut = 0
    /\ last.inProv.flip # <<>>
    /\ last.inProv.flip[1] <= SourceHeaderSize - ChecksumSize

FailFastOffsets ==
    (DecryptedContainer /\ last.inProv.flip = <<>>
        /\ last.inProv.cut > Len(Source.ciphertext)
        /\ last.inProv.cut <= Len(Source.ciphertext) + AuthTagSize)
    => /\ last.err = SizeMismatchError
       /\ ~last.keyDerived

\* C6: when the tag verifies but the plaintext length differs from the
\* header's OriginalSize (the OriginalSize field of a container was changed
\* and the password is right), DecryptFile returns the size-mismatch error,
\* which is not the authentication error, and writes no output
PostDecryptSizeCheck ==
    /\ SizeMismatchError # AuthenticationError
    /\ (DecryptedContainer /\ last.inProv.cut = 0
          /\ last.inProv.flip # <<>>
          /\ InField(last.inProv.flip[1], OriginalSizeOffset, OriginalSizeSize)
          /\ last.password = Source.password)
       => last.err = SizeMismatchError
    /\ (Returned("decrypt") /\ last.err = SizeMismatchError)
       => NoOutputWritten

\* a container whose OriginalSize field was changed has been decrypted under
\* the right password and rejected for its size, while the output path held
\* a file
SizeMismatchRejected ==
    /\ DecryptedContainer /\ last.inProv.cut = 0
    /\ last.inProv.flip # <<>>
    /\ InField(last.inProv.flip[1], OriginalSizeOffset, OriginalSizeSize)
    /\ last.password = Source.password
    /\ last.err = SizeMismatchError
    /\ fs[last.outputPath].kind = "file"
    /\ NoOutputWritten

\* C7: when EncryptFile or DecryptFile returns an error after it has
\* created its output file, no file remains at the output path
FailureCleanup ==
    (last.op \in {"encrypt", "decrypt"} /\ last.err # "" /\ last.created)
    => fs[last.outputPath] = NoFile

\* C8: when EncryptFile or DecryptFile returns, with or without an error,
\* its plaintext buffer and its derived-key buffer hold only zero bytes
SecureErase ==
    (last.op \in {"encrypt", "decrypt"} /\ last.err # PanicError)
    => /\ IsZeroed(last.ptBuf)
       /\ IsZeroed(last.keyBuf)

\* the EncryptFile calls in encLog that encrypted with a nonce
Encrypted == {i \in 1..Len(encLog) : encLog[i].nonce # <<>>}

\* the offsets of the Salt and IV fields in the header
SaltOffset == MagicSize + VersionSize + AlgorithmSize
IVOffset == SaltOffset + SaltSize

\* every call that reached the cipher used a 32-byte salt and a 12-byte
\* nonce, and no two calls share a salt or a nonce
SaltsAndNoncesFresh ==
    /\ \A i \in Encrypted :
          Len(encLog[i].salt) = SaltSize /\ Len(encLog[i].nonce) = NonceSize
    /\ \A i, j \in Encrypted :
          i # j => /\ encLog[i].salt # encLog[j].salt
                   /\ encLog[i].nonce # encLog[j].nonce

\* the container EncryptFile has just written holds the call's salt, and in
\* its IV the nonce the cipher used followed by four zero bytes
NonceStoredInHeader ==
    (Returned("encrypt") /\ last.err = "")
    => LET data == fs[last.outputPath].data
       IN  /\ Field(data, SaltOffset, SaltSize) = encLog[Len(encLog)].salt
           /\ Field(data, IVOffset, NonceSize) = last.nonce
           /\ Field(data, IVOffset + NonceSize, IVSize - NonceSize)
                 = Zeros(IVSize - NonceSize)

\* DecryptFile hands the cipher the nonce the container was encrypted with
NonceUsedForDecryption ==
    (DecryptedContainer /\ ContainerIntact) => last.nonce = Source.nonce

VerifyOrder ==
    Returned("verify")
    => LET r == last.result
       IN  /\ r.FormatValid => r.FileAccessible
           /\ r.HeaderValid => r.FormatValid
           /\ r.SizeConsistent => r.HeaderValid
           /\ r.IsValid <=> (r.FileAccessible /\ r.FormatValid
                               /\ r.HeaderValid /\ r.SizeConsistent)

\* VerifyFile has stopped at the size check of a container cut short
VerifyStoppedAtSize ==
    /\ Returned("verify")
    /\ last.inProv.enc # 0 /\ last.inProv.cut > 0
    /\ last.result.HeaderValid
    /\ ~last.result.SizeConsistent
    /\ ~last.result.IsValid

\* C11: deep verification of a container reports failure when the password
\* is not the one it was encrypted with, and when a bit of its ciphertext
\* or tag has been inverted; it reports valid only for a container that
\* DecryptFile would decrypt with that password
DeepVerification ==
    (Returned("verifyDeep") /\ last.inProv.enc # 0 /\ last.inProv.cut = 0)
    => /\ (ContainerIntact /\ last.password # Source.password)
            => ~last.result.IsValid
       /\ (last.inProv.flip # <<>> /\ last.inProv.flip[1] > SourceHeaderSize)
            => ~last.result.IsValid
       /\ last.result.IsValid
            => DecryptFileWithProgress(fs, last.inputPath, "x",
                                       last.password, NoFault).err = ""

\* C12: VerifyFile on a container whose last byte has been removed returns
\* SizeConsistent = FALSE and IsValid = FALSE
TruncationDetection ==
    (Returned("verify") /\ last.inProv.enc # 0
        /\ last.inProv.flip = <<>> /\ last.inProv.cut = 1)
    => /\ ~last.result.SizeConsistent
       /\ ~last.result.IsValid

\* the base name of the input of the EncryptFile call that has just returned
EncryptedBaseName == FilepathBase(PathName[last.inputPath])

\* C13: when EncryptFile succeeds on an N-byte plaintext whose base name has
\* L bytes, the output has exactly 120 + L + N + 16 bytes: a header of
\* 120 + L bytes whose OriginalSize is N, then the N ciphertext bytes, then
\* the 16-byte tag; the container is larger than the plaintext
ContainerLayout ==
    (Returned("encrypt") /\ last.err = "")
    => LET data == fs[last.outputPath].data
           entry == encLog[Len(encLog)]
           N == Len(entry.plaintext)
           L == Len(EncryptedBaseName)
           rd == ReadFrom(data)
       IN  /\ Len(data) = 120 + L + N + 16
           /\ rd.err = "" /\ rd.n = 120 + L
           /\ rd.h.OriginalSize = LittleEndian(N, OriginalSizeSize)
           /\ rd.h.FileName = EncryptedBaseName
           /\ SubSeq(data, 120 + L + 1, 120 + L + N) = entry.ciphertext
           /\ Len(entry.ciphertext) = N
           /\ Len(data) > N

\* EncryptFile has written the container of a non-empty plaintext
ContainerWritten ==
    /\ Returned("encrypt") /\ last.err = ""
    /\ encLog[Len(encLog)].plaintext # <<>>
    /\ Len(fs[last.outputPath].data)
          = 120 + Len(EncryptedBaseName) + Len(encLog[Len(encLog)].plaintext) + 16

\* C14: VerifyFile on a container as EncryptFile left it returns IsValid,
\* with OriginalSize the plaintext length and OriginalFilename the base name
\* of the encrypted input
VerifyAfterEncrypt ==
    (Returned("verify") /\ last.inProv.enc # 0 /\ ContainerIntact)
    => /\ last.result.IsValid
       /\ last.result.OriginalSize
             = LittleEndian(Len(Source.plaintext), OriginalSizeSize)
       /\ last.result.OriginalFilename
             = FilepathBase(PathName[Source.inputPath])

\* the container of a non-empty plaintext has been verified as valid
VerifiedAfterEncrypt ==
    /\ Returned("verify") /\ last.inProv.enc # 0 /\ ContainerIntact
    /\ Source.plaintext # <<>>
    /\ last.result.IsValid
    /\ last.result.OriginalSize # Zeros(OriginalSizeSize)

\* C15: VerifyFile reports FileAccessible exactly when the path is a regular
\* file: not for a path that does not exist, not for a directory
AccessibleOnlyRegularFile ==
    Returned("verify")
    => (last.result.FileAccessible <=> fs[last.inputPath].kind = "file")

\* C16: BatchVerify returns no error and one result per path, in the order
\* of the paths; result i is what VerifyFile returns for path i, whatever the
\* other files are: a missing file gives a result that is not accessible, a
\* container as EncryptFile left it gives a valid one
BatchIndependent ==
    Returned("batch")
    => /\ last.err = ""
       /\ Len(last.results) = Len(last.filePaths)
       /\ \A i \in 1..Len(last.filePaths) :
             LET p == last.filePaths[i]
                 r == last.results[i]
             IN  /\ r # NilResult
                 /\ r.Filename = p
                 /\ r = VerifyFile(fs, p)
                 /\ fs[p].kind = "none" => ~r.FileAccessible
                 /\ (prov[p].enc # 0 /\ prov[p].flip = <<>> /\ prov[p].cut = 0)
                       => r.IsValid

\* a batch whose first file is missing and whose second is a valid container
\* has been verified
BatchPastFailure ==
    /\ Returned("batch")
    /\ Len(last.filePaths) = 2
    /\ fs[last.filePaths[1]].kind = "none"
    /\ ~last.results[1].FileAccessible
    /\ prov[last.filePaths[2]].enc # 0
    /\ last.results[2].IsValid

\* the stream holds the fixed-size fields up to the name length, and the
\* name length it declares exceeds 4096
DeclaresTooLargeName(data) ==
    /\ Len(data) >= 72
    /\ \/ data[71] # 0 \/ data[72] # 0
       \/ data[69] + 256 * data[70] > 4096

\* the stream ends before the header it starts is complete
EndsBeforeHeaderEnd(data) ==
    \/ Len(data) < 72
    \/ /\ ~DeclaresTooLargeName(data)
       /\ Len(data) < 72 + (data[69] + 256 * data[70]) + 32 + 16

\* C17: ReadFrom fails exactly when the stream ends before the whole header
\* is read or the declared name length exceeds 4096, the latter being
\* reported even when the stream is too short for such a name; on every
\* other stream it succeeds, whatever the magic, version, algorithm and
\* checksum, and returns them as read
ReadFromFailures ==
    Returned("readHeader")
    => LET data == fs[last.inputPath].data
       IN  /\ last.err # ""
                <=> (EndsBeforeHeaderEnd(data) \/ DeclaresTooLargeName(data))
           /\ last.err = "filename length too large"
                <=> DeclaresTooLargeName(data)
           /\ last.err = ""
                => /\ last.header.Magic = SubSeq(data, 1, 4)
                   /\ last.header.Version = SubSeq(data, 5, 8)
                   /\ last.header.Algorithm = SubSeq(data, 9, 12)
                   /\ last.header.Checksum
                         = SubSeq(data, Len(data) - 15, Len(data))

\* ReadFrom has refused a header that declares a name of 4097 bytes
TooLargeNameRefused ==
    /\ Returned("readHeader")
    /\ last.written.FileNameLength
          = LittleEndian(MaxFileNameLength + 1, FileNameLengthSize)
    /\ ~last.werr
    /\ last.err = "filename length too large"

\* C18: for a header built by NewFileHeader with a name of at most 4096
\* bytes and written completely by WriteTo, ReadFrom into a fresh header
\* succeeds and yields an equal header, and WriteTo and ReadFrom both report
\* 120 + len(name) bytes, which is GetTotalSize()
HeaderRoundTrip ==
    (Returned("readHeader") /\ last.built /\ ~last.werr
        /\ Len(last.written.FileName) <= 4096)
    => /\ last.err = ""
       /\ last.header = last.written
       /\ last.wn = 120 + Len(last.written.FileName)
       /\ last.n = last.wn
       /\ last.n = GetTotalSize(last.written)
       /\ Len(fs[last.inputPath].data) = last.n

\* a header with a name of 4096 bytes has been written and read back
LongestNameReadBack ==
    /\ Returned("readHeader") /\ last.built /\ ~last.werr
    /\ Len(last.written.FileName) = 4096
    /\ last.err = ""
    /\ last.header.FileName = last.written.FileName

\* the header that starts the file the last call read has the magic tag, the
\* supported version and the AES-256-GCM algorithm id
HeaderRecognized ==
    LET h == ReadFrom(fs[last.inputPath].data).h
    IN  /\ h.Magic = MagicBytes
        /\ h.Version = LittleEndian(FormatVersion, VersionSize)
        /\ h.Algorithm = LittleEndian(AlgorithmAES256GCM, AlgorithmSize)

\* C19: a header is accepted only if its magic, its version and its
\* algorithm id are the recognized ones: VerifyFile reports HeaderValid only
\* for such a header, and DecryptFile rejects every completely read header
\* that is not such a header as an invalid file format
HeaderValidation ==
    /\ (Returned("verify") /\ last.result.HeaderValid) => HeaderRecognized
    /\ (Returned("decrypt") /\ last.inProv.enc # 0
          /\ ReadFrom(fs[last.inputPath].data).err = ""
          /\ ~HeaderRecognized)
       => last.err = "invalid file format"

\* C20: the iteration count held in the configuration is at least 1000 and
\* at most 10000000, whatever calls of DefaultConfig, Load, UpdateFromFlags
\* and Reset produced the configuration
IterationBound ==
    cfg # NoConfig
    => /\ cfg.DefaultIterations >= 1000
       /\ cfg.DefaultIterations <= 10000000

\* the container the last DecryptFile call read gets as far as the tag
\* verification (header read and valid, encrypted data and tag present)
\* and the tag does not verify under the password given
TagVerificationFails ==
    LET data == fs[last.inputPath].data
        rd == ReadFrom(data)
        size == EncryptedDataSize(Len(data), rd.h)
        key == NewAESCipherFromPassword(last.password, rd.h.Salt).key
    IN  /\ rd.err = "" /\ IsValid(rd.h) = "" /\ size >= 0
        /\ ~GcmOpen(key, DecryptNonce(rd.h),
                    SubSeq(data, rd.n + 1, Len(data))).ok

\* the failures DecryptFile reports for the format, the header and the size
FormatAndSizeErrors ==
    {"failed to read header", "invalid file format", SizeMismatchError}

\* C21: DecryptFile returns the authentication error exactly when the tag
\* verification fails, be it for a wrong password on an intact container or
\* for a container that was changed (bit inverted, end cut off) read under
\* the right password, and that error is none of the format, header and
\* size-mismatch errors
ErrorClassification ==
    (Returned("decrypt") /\ last.inProv.enc # 0)
    => /\ last.err = AuthenticationError <=> TagVerificationFails
       /\ (ContainerIntact /\ last.password # Source.password)
             => last.err = AuthenticationError
       /\ (last.password = Source.password /\ last.err = AuthenticationError)
             => ~ContainerIntact
       /\ last.err = AuthenticationError => last.err \notin FormatAndSizeErrors
       /\ last.err \in FormatAndSizeErrors => ~TagVerificationFails

\* a container whose last byte was cut off has been read under the right
\* password and rejected with the authentication error
TruncatedReportedAsAuthentication ==
    /\ DecryptedContainer
    /\ last.inProv.flip = <<>> /\ last.inProv.cut = 1
    /\ last.password = Source.password
    /\ last.err = AuthenticationError

\* C25: ValidateOutputFile is a pure check: whatever the path, the value of
\* force and the error returned, the file system after the call is the file
\* system before it
ValidateOutputIsPure == Returned("validateOutput") => fs = last.before

\* core.DecryptFile returned the authentication error (wrong password or a
\* file whose tag does not verify) to the decrypt command that has just ended
DecryptCommandAuthFailed ==
    /\ Returned("decryptCmd")
    /\ \E i \in 1..Len(last.coreErrs) : last.coreErrs[i] = AuthenticationError

\* C22: a decrypt command that fails because of a wrong password or a file
\* whose tag does not verify ends the process with exit code 4, and a
\* command that returns a nil error ends it with exit code 0
ExitCodes ==
    /\ DecryptCommandAuthFailed => last.exit = 4
    /\ (Returned("decryptCmd") /\ last.err = NoError) => last.exit = 0

\* the part of C22 the code keeps: a nil error gives exit code 0
NilErrorExitsZero ==
    (Returned("decryptCmd") /\ last.err = NoError) => last.exit = 0

\* the file at path q is a container that decrypts with the password to
\* content
DecryptsTo(q, password, content) ==
    LET r == DecryptFileWithProgress(fs, q, "x", password, NoFault)
    IN  fs[q].kind = "file" /\ r.err = "" /\ r.fs["x"].data = content

\* the input files of the encrypt run that has just ended whose original is
\* no longer on disk
RemovedOriginals ==
    {p \in {last.args[i] : i \in 1..Len(last.args)} :
        last.before[p].kind = "file" /\ fs[p].kind = "none"}

\* C24: after an encrypt run, single or batch, with any combination of -o,
\* --force and --keep, every input file whose original has been removed has
\* a container on disk that decrypts with the entered password to that
\* file's original content
NoDataLoss ==
    Returned("encryptCmd")
    => \A p \in RemovedOriginals :
          \E q \in Paths : DecryptsTo(q, last.password, last.before[p].data)

\* C26: the encrypt command, single-file or batch, with or without --quiet,
\* calls core encryption with a password that CheckPasswordStrength rates
\* Weak only if --force was given or the user answered yes to the
\* weak-password question
WeakPasswordGate ==
    Returned("encryptCmd")
    => \A i \in 1..Len(last.calls) :
          CheckPasswordStrength(last.calls[i].password) = "Weak"
          => last.force \/ last.confirmed

\* the part of C26 the code keeps: a single-file run without --quiet
SingleFileWeakPasswordGate ==
    (Returned("encryptCmd") /\ Len(last.args) = 1 /\ ~last.quiet)
    => \A i \in 1..Len(last.calls) :
          CheckPasswordStrength(last.calls[i].password) = "Weak"
          => last.force \/ last.confirmed

\* C27: in every result VerifyFile returns, ErrorMessage is non-empty
\* exactly when IsValid is false, FileSize is set only if FileAccessible is
\* true, and OriginalFilename, OriginalSize, Algorithm and FormatVersion are
\* set only if HeaderValid is true (set: other than the zero value)
ResultConsistency ==
    Returned("verify")
    => /\ last.result.ErrorMessage # "" <=> ~last.result.IsValid
       /\ last.result.FileSize # 0 => last.result.FileAccessible
       /\ ~last.result.HeaderValid
             => /\ last.result.OriginalFilename = <<>>
                /\ last.result.OriginalSize = Zeros(OriginalSizeSize)
                /\ last.result.Algorithm = ""
                /\ last.result.FormatVersion = Zeros(VersionSize)

\* VerifyFile has returned a result for a container cut short: the header
\* is valid and its fields are set, the result is not valid and carries a
\* message
ShortContainerReported ==
    /\ Returned("verify")
    /\ last.inProv.enc # 0 /\ last.inProv.cut > 0
    /\ last.result.HeaderValid /\ last.result.OriginalFilename # <<>>
    /\ last.result.FileSize # 0
    /\ ~last.result.IsValid /\ last.result.ErrorMessage # ""

\* C30: the legacy header serializes to exactly HeaderSize = 64 bytes: the
\* number of bytes WriteTo puts on the stream and the number ReadFrom takes
\* from it equal the 64 that both report and that GetSize returns
LegacyFixedHeaderSize ==
    /\ HeaderSize = 64
    /\ (Returned("legacyWrite") /\ ~last.err)
          => last.n = HeaderSize /\ last.written = last.n
    /\ (Returned("legacyRead") /\ last.err = "")
          => /\ last.n = HeaderSize /\ last.size = HeaderSize
             /\ last.consumed = last.n

\* the part of C30 the code keeps: the counts reported are all 64
LegacyReportedSize ==
    /\ HeaderSize = 64
    /\ (Returned("legacyWrite") /\ ~last.err) => last.n = HeaderSize
    /\ (Returned("legacyRead") /\ last.err = "")
          => last.n = HeaderSize /\ last.size = HeaderSize

\* C28: under any interleaving of explicit Destroy calls with the goroutine
\* AutoDestroy starts, the cleanup function of the buffer runs at most once,
\* and a Data() call made after any Destroy call returned gives nil
DestroyOnce ==
    sb # NoBuffer
    => /\ sb.cleanups <= 1
       /\ \A g \in Callers :
             (pc[g].at = "data" /\ pc[g].afterDestroy) => pc[g].value = "nil"

\* the first half of C28 alone
CleanupAtMostOnce == sb # NoBuffer => sb.cleanups <= 1

\* the second half of C28 alone
DataNilAfterDestroy ==
    \A g \in Callers :
       (pc[g].at = "data" /\ pc[g].afterDestroy) => pc[g].value = "nil"

\* C28 for one goroutine: the calls a goroutine makes one after the other
\* run the cleanup once, and Data() gives nil after its own Destroy
DestroyOnceSequential ==
    (sb # NoBuffer /\ pc["g2"] = Idle /\ pc["g3"] = Idle
        /\ sb.cleared \subseteq {"g1"})
    => /\ sb.cleanups <= 1
       /\ (pc["g1"].at = "data" /\ pc["g1"].afterDestroy)
             => pc["g1"].value = "nil"

\* the bytes handed to the bufio.Writer so far, in order: they are what the
\* file holds once the buffer is flushed
StreamBytes == sw.file \o sw.buf

\* the chunks the call that holds the write lock has written so far
WrittenByHolder ==
    IF sw.mutex = "" THEN <<>>
    ELSE Concat(SubSeq(pc[sw.mutex].chunks, 1,
                       IF pc[sw.mutex].at = "write" THEN pc[sw.mutex].i - 1
                       ELSE pc[sw.mutex].i))

\* C29: for concurrent Write, WriteChunk and WriteBatch calls on one
\* StreamWriter with no I/O error, the bytes reaching the file are the bytes
\* of whole calls one after the other (the chunks of one WriteBatch are
\* contiguous), and GetBytesWritten gives the number of bytes of all the
\* calls that have returned, plus the size the file had in append mode
StreamLinearizable ==
    sw # NoWriter
    => /\ StreamBytes = sw.content0 \o Concat(sw.done) \o WrittenByHolder
       /\ sw.mutex = ""
             => sw.bytesWritten = Len(sw.content0) + Len(Concat(sw.done))
       /\ \A g \in Goroutines :
             pc[g].at = "got" => pc[g].value = pc[g].completed

\* in append mode on a file that was not empty, a WriteBatch and another
\* call that started while the lock was held have both returned, and
\* GetBytesWritten has returned the size of the file plus their bytes
OverlappingCallsDone ==
    /\ sw # NoWriter
    /\ sw.content0 # <<>>
    /\ sw.overlapped
    /\ Len(sw.done) = 2
    /\ \E i \in 1..2 : sw.done[i] \in {Concat(b) : b \in Batches}
    /\ pc["g3"].at = "got"
    /\ pc["g3"].value = Len(sw.content0) + Len(sw.done[1]) + Len(sw.done[2])

\* the calls that open files: EncryptFile, DecryptFile, VerifyFile (with the
\* IsEncryptedFile it calls) and VerifyIntegrity
FileOperations == {"encrypt", "decrypt", "verify", "verifyDeep"}

\* C23: every file handle opened by EncryptFile, DecryptFile, VerifyFile,
\* VerifyIntegrity and IsEncryptedFile is closed when the operation returns,
\* on every exit path: a call that has just returned holds no open handle and
\* has no Close left to run.
HandleRelease ==
    last.op \in FileOperations =>
        /\ last.handles.open = {}
        /\ last.handles.deferred = <<>>

\* an encryption that opened both files and failed while writing the
\* ciphertext has returned with both handles closed
HandlesClosedAfterError ==
    /\ Returned("encrypt")
    /\ last.err = "failed to write encrypted data"
    /\ last.handles.opened = {"inputFile", "outputFile"}
    /\ last.handles.open = {}

====
